---- MODULE Spec2Model ----
(***************************************************************************)
(* Batch engine of madany-pdf-batcher: the worker thread of                *)
(* ui/processing.py, the main-window handlers that start, cancel and       *)
(* finish it, the per-paper-size config resolver of the worker and of the  *)
(* live preview, and the UI handlers that edit the configs.                *)
(***************************************************************************)
EXTENDS Integers, Sequences, FiniteSets, TLC

\* ------------------------------------------------------------------------
\* Bounds of the model
\* ------------------------------------------------------------------------
\* PDF files found under the input folder
MaxFiles == 2
\* batch runs (PDFProcessingThread objects) created over a behaviour
MaxRuns == 2
\* config-editing UI handlers run over a behaviour
MaxEdits == 1
\* user gestures (clicks in the window and its progress dialogs) over a behaviour
MaxGestures == 5

\* ------------------------------------------------------------------------
\* core/constants.py
\* ------------------------------------------------------------------------
DIMENSION_TOLERANCE == 10

None == <<>>

\* PAPER_DEFINITIONS in dict order, as (family, mode, w, h)
PAPER_DEFINITIONS ==
  << <<"A3", "portrait", 842, 1191>>,        <<"A3", "landscape", 1191, 842>>,
     <<"A4", "portrait", 595, 842>>,         <<"A4", "landscape", 842, 595>>,
     <<"A5", "portrait", 420, 595>>,         <<"A5", "landscape", 595, 420>>,
     <<"US Letter", "portrait", 612, 792>>,  <<"US Letter", "landscape", 792, 612>>,
     <<"US Legal", "portrait", 612, 1008>>,  <<"US Legal", "landscape", 1008, 612>>,
     <<"Tabloid", "portrait", 792, 1224>>,   <<"Tabloid", "landscape", 1224, 792>>,
     <<"Unknown", "portrait", 595, 842>>,    <<"Unknown", "landscape", 842, 595>> >>

ALL_PAPER_KEYS ==
  { <<PAPER_DEFINITIONS[i][1], PAPER_DEFINITIONS[i][2]>> : i \in DOMAIN PAPER_DEFINITIONS }

Abs(x) == IF x < 0 THEN -x ELSE x

\* a classifier that also accepts a difference equal to the tolerance
detect_paper_key_inclusive(width, height, tol) ==
  LET hits == { i \in DOMAIN PAPER_DEFINITIONS :
                  /\ PAPER_DEFINITIONS[i][1] # "Unknown"
                  /\ Abs(width - PAPER_DEFINITIONS[i][3]) <= tol
                  /\ Abs(height - PAPER_DEFINITIONS[i][4]) <= tol }
  IN IF hits = {} THEN None
     ELSE LET i == CHOOSE j \in hits : \A k \in hits : j <= k
          IN <<PAPER_DEFINITIONS[i][1], PAPER_DEFINITIONS[i][2]>>

\* a classifier that makes the "Unknown" key itself when no paper matches
detect_paper_key_bucketed(width, height, tol) ==
  LET hits == { i \in DOMAIN PAPER_DEFINITIONS :
                  /\ PAPER_DEFINITIONS[i][1] # "Unknown"
                  /\ Abs(width - PAPER_DEFINITIONS[i][3]) < tol
                  /\ Abs(height - PAPER_DEFINITIONS[i][4]) < tol }
  IN IF hits = {}
     THEN <<"Unknown", IF height >= width THEN "portrait" ELSE "landscape">>
     ELSE LET i == CHOOSE j \in hits : \A k \in hits : j <= k
          IN <<PAPER_DEFINITIONS[i][1], PAPER_DEFINITIONS[i][2]>>

\* detect_paper_key(width, height, tol): the first catalog entry, "Unknown"
\* skipped, within tol of both dimensions, or None
detect_paper_key(width, height, tol) ==
  LET hits == { i \in DOMAIN PAPER_DEFINITIONS :
                  /\ PAPER_DEFINITIONS[i][1] # "Unknown"
                  /\ Abs(width - PAPER_DEFINITIONS[i][3]) < tol
                  /\ Abs(height - PAPER_DEFINITIONS[i][4]) < tol }
  IN IF hits = {} THEN None
     ELSE LET i == CHOOSE j \in hits : \A k \in hits : j <= k
          IN <<PAPER_DEFINITIONS[i][1], PAPER_DEFINITIONS[i][2]>>

Features == {"text", "timestamp", "stamp"}

DEFAULT_TEXT_CONFIG ==
  [font_family |-> "Arial", text_opacity |-> 100, position |-> "Top Left"]

DEFAULT_TIMESTAMP_CONFIG ==
  [font_family |-> "Arial", text_opacity |-> 100, position |-> "Bottom Right"]

DEFAULT_STAMP_CONFIG ==
  [stamp_width_mm |-> 150, stamp_height_mm |-> 150, maintain_aspect |-> TRUE,
   stamp_opacity |-> 100, position |-> "Center Right"]

DEFAULT_CONFIG(f) ==
  CASE f = "text" -> DEFAULT_TEXT_CONFIG
    [] f = "timestamp" -> DEFAULT_TIMESTAMP_CONFIG
    [] f = "stamp" -> DEFAULT_STAMP_CONFIG

\* merge of two dicts: the entries of d, then those of e over them
Merge(d, e) ==
  [k \in (DOMAIN d) \cup (DOMAIN e) |-> IF k \in DOMAIN e THEN e[k] ELSE d[k]]

\* cfg.get(k, dflt)
Get(cfg, k, dflt) == IF k \in DOMAIN cfg THEN cfg[k] ELSE dflt

\* ------------------------------------------------------------------------
\* Strings are sequences of one-character strings
\* ------------------------------------------------------------------------
Digits == {"0", "1", "2", "3", "4", "5", "6", "7", "8", "9"}

DigitVal(c) ==
  CASE c = "0" -> 0 [] c = "1" -> 1 [] c = "2" -> 2 [] c = "3" -> 3 [] c = "4" -> 4
    [] c = "5" -> 5 [] c = "6" -> 6 [] c = "7" -> 7 [] c = "8" -> 8 [] c = "9" -> 9

\* str.strip()
Strip(s) ==
  LET keep == { i \in DOMAIN s : s[i] # " " }
  IN IF keep = {} THEN <<>>
     ELSE SubSeq(s, CHOOSE i \in keep : \A j \in keep : i <= j,
                    CHOOSE i \in keep : \A j \in keep : i >= j)

\* "c in s"
Contains(s, c) == \E i \in DOMAIN s : s[i] = c

FirstIndex(s, c) == CHOOSE i \in DOMAIN s : s[i] = c /\ \A j \in 1..(i - 1) : s[j] # c

\* str.split(c)
RECURSIVE SplitOn(_, _)
SplitOn(s, c) ==
  IF ~Contains(s, c) THEN <<s>>
  ELSE LET i == FirstIndex(s, c)
       IN <<SubSeq(s, 1, i - 1)>> \o SplitOn(SubSeq(s, i + 1, Len(s)), c)

\* the digits of int(t): t stripped, less one leading sign
IntBody(t) ==
  LET u == Strip(t)
  IN IF u # <<>> /\ u[1] \in {"-", "+"} THEN Tail(u) ELSE u

\* int(t) does not raise ValueError
IsIntLit(t) == IntBody(t) # <<>> /\ \A i \in DOMAIN IntBody(t) : IntBody(t)[i] \in Digits

RECURSIVE DigitsVal(_)
DigitsVal(d) ==
  IF d = <<>> THEN 0
  ELSE 10 * DigitsVal(SubSeq(d, 1, Len(d) - 1)) + DigitVal(d[Len(d)])

\* int(t), for t with IsIntLit(t)
IntOf(t) ==
  LET u == Strip(t)
  IN IF u[1] = "-" THEN 0 - DigitsVal(IntBody(t)) ELSE DigitsVal(IntBody(t))

\* ------------------------------------------------------------------------
\* ui/processing.py: PDFProcessingThread helpers
\* ------------------------------------------------------------------------
\* A page is its rect and rotation: [w, h, rot]
\* page dimensions taken without regard to the rotation
_get_page_dim_uncorrected(page) == <<page.w, page.h>>

\* _get_page_dim_corrected
_get_page_dim_corrected(page) ==
  IF page.rot \in {90, 270} THEN <<page.h, page.w>> ELSE <<page.w, page.h>>

\* a key that calls a page portrait only when it is taller than wide
WorkerPaperKeyStrict(page) ==
  LET d == _get_page_dim_corrected(page)
      key == detect_paper_key(d[1], d[2], DIMENSION_TOLERANCE)
  IN IF key = None
     THEN <<"Unknown", IF d[2] > d[1] THEN "portrait" ELSE "landscape">>
     ELSE key

\* the paper key _get_config looks up
WorkerPaperKey(page) ==
  LET d == _get_page_dim_corrected(page)
      key == detect_paper_key(d[1], d[2], DIMENSION_TOLERANCE)
  IN IF key = None
     THEN <<"Unknown", IF d[2] >= d[1] THEN "portrait" ELSE "landscape">>
     ELSE key

\* _get_config(page, configs, default): configs.get(key, default)
_get_config(page, configs, default) ==
  IF WorkerPaperKey(page) \in DOMAIN configs
  THEN configs[WorkerPaperKey(page)] ELSE default

\* one part of the custom string, with a reversed range left as written
WorkerPartSelectsNoSwap(part0, pno) ==
  LET part == Strip(part0)
  IN IF Contains(part, "-")
     THEN LET i == FirstIndex(part, "-")
              l == SubSeq(part, 1, i - 1)
              r == SubSeq(part, i + 1, Len(part))
          IN /\ IsIntLit(l) /\ IsIntLit(r)
             /\ IntOf(l) <= pno /\ pno <= IntOf(r)
     ELSE IsIntLit(part) /\ IntOf(part) = pno

\* one part of the custom string selects page pno
WorkerPartSelects(part0, pno) ==
  LET part == Strip(part0)
  IN IF Contains(part, "-")
     THEN LET i == FirstIndex(part, "-")
              l == SubSeq(part, 1, i - 1)
              r == SubSeq(part, i + 1, Len(part))
          IN /\ IsIntLit(l) /\ IsIntLit(r)
             /\ LET s == IntOf(l)
                    e == IntOf(r)
                    lo == IF s > e THEN e ELSE s
                    hi == IF s > e THEN s ELSE e
                IN lo <= pno /\ pno <= hi
     ELSE IsIntLit(part) /\ IntOf(part) = pno

\* a selection that applies the feature under a mode it does not know
_check_selection_fail_open(idx, total, cfg) ==
  LET mode == Get(cfg, "page_selection", "all")
      custom_str == Get(cfg, "custom_pages", <<>>)
      pno == idx + 1
  IN CASE mode = "all" -> TRUE
       [] mode = "first" -> pno = 1
       [] mode = "last" -> pno = total
       [] mode = "odd" -> (pno % 2) = 1
       [] mode = "even" -> (pno % 2) = 0
       [] mode = "custom" ->
            \E k \in DOMAIN SplitOn(custom_str, ",") :
               WorkerPartSelects(SplitOn(custom_str, ",")[k], pno)
       [] OTHER -> TRUE

\* _check_selection(idx, total, cfg)
_check_selection(idx, total, cfg) ==
  LET mode == Get(cfg, "page_selection", "all")
      custom_str == Get(cfg, "custom_pages", <<>>)
      pno == idx + 1
  IN CASE mode = "all" -> TRUE
       [] mode = "first" -> pno = 1
       [] mode = "last" -> pno = total
       [] mode = "odd" -> (pno % 2) = 1
       [] mode = "even" -> (pno % 2) = 0
       [] mode = "custom" ->
            \E k \in DOMAIN SplitOn(custom_str, ",") :
               WorkerPartSelects(SplitOn(custom_str, ",")[k], pno)
       [] OTHER -> FALSE

\* ------------------------------------------------------------------------
\* The files under the input folder, and the output folder
\* ------------------------------------------------------------------------
Files == 1..MaxFiles
Runs == 1..MaxRuns

\* os.path.relpath(pdf_path, input_root): every second file lies in a subfolder
relpath(f) == [dir |-> IF f % 2 = 0 THEN "sub" ELSE "", name |-> (f + 1) \div 2]

\* os.path.basename(pdf_path)
basename(f) == (f + 1) \div 2

\* the save path, relative to the output folder, computed alike by
\* get_existing_output_files and by the worker's save logic
save_path(f, input_root) ==
  IF input_root # "" THEN relpath(f) ELSE [dir |-> "", name |-> basename(f)]

\* a save logic that always takes the flat branch
worker_save_path_flat(f, input_root) == [dir |-> "", name |-> basename(f)]

\* the save logic of run(): rel_path under the output folder when there is an
\* input root, the bare file name otherwise
worker_save_path(f, input_root) ==
  IF input_root # ""
  THEN [dir |-> relpath(f).dir, name |-> relpath(f).name]
  ELSE [dir |-> "", name |-> basename(f)]

PageKinds ==
  << [w |-> 595, h |-> 842, rot |-> 0], [w |-> 842, h |-> 595, rot |-> 90],
     [w |-> 300, h |-> 400, rot |-> 0], [w |-> 1191, h |-> 842, rot |-> 0] >>

\* len(doc) and doc.load_page(i) of file f
page_count(f) == IF f % 2 = 1 THEN 2 ELSE 1
load_page(f, i) == PageKinds[((f + i) % Len(PageKinds)) + 1]

\* the selected list follows the tree order: the ascending files of a subset
RECURSIVE Ascending(_)
Ascending(S) ==
  IF S = {} THEN <<>>
  ELSE LET m == CHOOSE x \in S : \A y \in S : x <= y
       IN <<m>> \o Ascending(S \ {m})

Range(q) == { q[i] : i \in DOMAIN q }

\* the font families of get_font_families, and a family no font file exists for
FontFamilies == {"Arial", "SpaceMono"}

\* resolve_font_path and the font key of apply_text_to_page
font_key(cfg) ==
  IF Get(cfg, "font_family", "Arial") \in FontFamilies
  THEN Get(cfg, "font_family", "Arial") ELSE "helv"

\* ------------------------------------------------------------------------
\* State
\* ------------------------------------------------------------------------
VARIABLES
  win,         \* the MainWindow attributes and the position of the UI thread
  dlg,         \* the ProgressDialog created for each run
  wk,          \* the PDFProcessingThread of each run: attributes, locals, position
  sigq,        \* signals emitted by workers, queued for the main thread
  font_cache,  \* PDFOperations._font_cache: of win.pdf_ops (0) and of each run's local_pdf_ops
  outFiles,    \* the save paths that exist in the output folder
  aborted,     \* the process was ended by Qt destroying a running QThread
  user,        \* the gestures and config edits made so far
  rq           \* a page whose config is being resolved, and the answers

vars == <<win, dlg, wk, sigq, font_cache, outFiles, aborted, user, rq>>

NoSettings == [configs |-> <<>>, shared |-> {}, default |-> <<>>]

\* a run not yet created
NoWorker ==
  [pc |-> "none", files |-> <<>>, input_root |-> "", features |-> {},
   settings |-> [f \in Features |-> NoSettings], stamp_path |-> "",
   interruption |-> FALSE, _is_canceled |-> FALSE,
   idx |-> 0, success_count |-> 0, error_count |-> 0, errors |-> <<>>,
   prepared_stamp |-> FALSE, stamp_cache |-> {},
   \* history
   emitted |-> <<>>, raised |-> {}, written |-> {}, touched |-> {},
   used_ops |-> {}, existed |-> {}, warned |-> {}, overwritten |-> {},
   given |-> [f \in Features |-> NoSettings], definitions_read |-> {}]

\* no result box has been shown
NoBox == [title |-> "", success |-> 0, errors |-> 0]

\* MainWindow.__init__
InitConfig(f) == Merge(DEFAULT_CONFIG(f), [page_selection |-> "all", custom_pages |-> <<>>])

\* the window after construction
InitWindow ==
  /\ win = [input_path_entry |-> "", output_path_entry |-> "",
            selected_pdf_paths |-> <<>>,
            configs_by_size |-> [f \in Features |-> [k \in ALL_PAPER_KEYS |-> InitConfig(f)]],
            default_config |-> [f \in Features |-> InitConfig(f)],
            current_stamp_path |-> "",
            _worker_thread |-> 0, _progress_dialog |-> 0,
            substitution_definitions |-> "default",
            log_viewer |-> <<>>, result_box |-> NoBox,
            pc |-> "idle", existing_files |-> {}]
  /\ dlg = [r \in Runs |-> [visible |-> FALSE, value |-> 0, label |-> <<"Initializing...">>]]
  /\ wk = [r \in Runs |-> NoWorker]
  /\ sigq = <<>>
  /\ font_cache = [o \in {0} \cup Runs |-> {}]
  /\ outFiles = {}
  /\ aborted = FALSE
  /\ user = [edits |-> 0, gestures |-> 0]

\* no config is being resolved
NoQuery == [stage |-> "none"]

Init == InitWindow /\ rq = NoQuery

\* the gestures still allowed
CanGesture == user.gestures < MaxGestures
CanEdit == user.edits < MaxEdits /\ CanGesture

\* the thread of run r is executing run()
Running(r) == wk[r].pc \in {"start", "loop", "file"}

\* the main window takes user input: the UI thread is in no handler and no
\* window-modal progress dialog is shown
UIFree ==
  /\ ~aborted
  /\ win.pc = "idle"
  /\ \A r \in Runs : ~dlg[r].visible

\* ------------------------------------------------------------------------
\* ui/pdf_viewer.py: the live preview
\* ------------------------------------------------------------------------
get_page_dim_corrected(page) ==
  IF page.rot \in {90, 270} THEN <<page.h, page.w>> ELSE <<page.w, page.h>>

\* get_config_for_page_size, with the feature's map and default passed in
get_config_for_page_size(page, target_map, default) ==
  LET d == get_page_dim_corrected(page)
      w == d[1]
      h == d[2]
      detected == detect_paper_key(w, h, DIMENSION_TOLERANCE)
      key == IF detected = None
             THEN <<"Unknown", IF h >= w THEN "portrait" ELSE "landscape">>
             ELSE detected
  IN IF key # None /\ key \in DOMAIN target_map THEN target_map[key] ELSE default

\* the pages of one part, with none dropped for lying outside the document
PartPagesUnclipped(part0, total_pages) ==
  LET part == Strip(part0)
  IN IF part = <<>> THEN {}
     ELSE IF Contains(part, "-")
     THEN LET i == FirstIndex(part, "-")
              l == SubSeq(part, 1, i - 1)
              r == SubSeq(part, i + 1, Len(part))
          IN IF IsIntLit(l) /\ IsIntLit(r)
             THEN LET lo == IF IntOf(l) > IntOf(r) THEN IntOf(r) ELSE IntOf(l)
                      hi == IF IntOf(l) > IntOf(r) THEN IntOf(l) ELSE IntOf(r)
                  IN lo..hi
             ELSE {}
     ELSE IF IsIntLit(part) THEN {IntOf(part)} ELSE {}

\* the pages one part of the custom string adds
PartPages(part0, total_pages) ==
  LET part == Strip(part0)
  IN IF part = <<>> THEN {}
     ELSE IF Contains(part, "-")
     THEN LET i == FirstIndex(part, "-")
              l == SubSeq(part, 1, i - 1)
              r == SubSeq(part, i + 1, Len(part))
          IN IF IsIntLit(l) /\ IsIntLit(r)
             THEN LET lo == IF IntOf(l) > IntOf(r) THEN IntOf(r) ELSE IntOf(l)
                      hi == IF IntOf(l) > IntOf(r) THEN IntOf(l) ELSE IntOf(r)
                  IN { q \in 1..total_pages : lo <= q /\ q <= hi }
             ELSE {}
     ELSE IF IsIntLit(part) /\ 1 <= IntOf(part) /\ IntOf(part) <= total_pages
          THEN {IntOf(part)} ELSE {}

parse_custom_pages(input_str, total_pages) ==
  UNION { PartPages(SplitOn(input_str, ",")[k], total_pages) :
            k \in DOMAIN SplitOn(input_str, ",") }

\* is_page_in_selection with the page given
is_page_in_selection(idx_zero_based, total_pages, page, target_map, default) ==
  LET cfg == get_config_for_page_size(page, target_map, default)
      mode == Get(cfg, "page_selection", "all")
      custom_str == Get(cfg, "custom_pages", <<>>)
      pno == idx_zero_based + 1
  IN CASE mode = "all" -> TRUE
       [] mode = "first" -> pno = 1
       [] mode = "last" -> pno = total_pages
       [] mode = "odd" -> (pno % 2) = 1
       [] mode = "even" -> (pno % 2) = 0
       [] mode = "custom" -> pno \in parse_custom_pages(custom_str, total_pages)
       [] OTHER -> FALSE

\* the fonts the preview of page i of a file asks win.pdf_ops for, in a
\* window w with the text and timestamp groups among the checked ones
PreviewFonts(w, checked, file, i) ==
  { font_key(get_config_for_page_size(load_page(file, i + 1),
                                      w.configs_by_size[f], w.default_config[f])) :
      f \in { g \in checked \cap {"text", "timestamp"} :
                is_page_in_selection(i, page_count(file), load_page(file, i + 1),
                                     w.configs_by_size[g], w.default_config[g]) } }

\* what render_current_page may leave in the font cache of win.pdf_ops: the
\* previewed file is one of the selected, on any of its pages, with any of
\* the feature groups checked; nothing is drawn when no document is open
Rendered(w) ==
  { font_cache[0] \cup fonts :
      fonts \in {{}} \cup
                { PreviewFonts(w, x[1], x[2], x[3]) :
                    x \in { y \in (SUBSET {"text", "timestamp"}) \X Range(w.selected_pdf_paths) \X {0, 1} :
                              y[3] < page_count(y[2]) } } }

\* render_current_page, on a page turn or a feature group toggled
render_current_page ==
  /\ CanGesture
  /\ UIFree
  /\ win.selected_pdf_paths # <<>>
  /\ \E c \in Rendered(win) : font_cache' = [font_cache EXCEPT ![0] = c]
  /\ user' = [user EXCEPT !.gestures = @ + 1]
  /\ UNCHANGED <<rq, win, dlg, wk, sigq, outFiles, aborted>>

\* ------------------------------------------------------------------------
\* ui/files_panel.py
\* ------------------------------------------------------------------------
\* pick_input_folder: the tree is repopulated and its first PDF checked,
\* which opens it in the preview
pick_input_folder ==
  /\ CanGesture
  /\ UIFree
  /\ win' = [win EXCEPT !.input_path_entry = "in", !.selected_pdf_paths = <<1>>]
  /\ user' = [user EXCEPT !.gestures = @ + 1]
  /\ \E c \in Rendered(win') : font_cache' = [font_cache EXCEPT ![0] = c]
  /\ UNCHANGED <<rq, dlg, wk, sigq, outFiles, aborted>>

\* refresh_selected_files_list: a new list object is bound
refresh_selected_files_list ==
  /\ CanGesture
  /\ UIFree
  /\ win.input_path_entry # ""
  /\ \E S \in SUBSET Files :
        win' = [win EXCEPT !.selected_pdf_paths = Ascending(S)]
  /\ user' = [user EXCEPT !.gestures = @ + 1]
  /\ \E c \in Rendered(win') : font_cache' = [font_cache EXCEPT ![0] = c]
  /\ UNCHANGED <<rq, dlg, wk, sigq, outFiles, aborted>>

pick_output_folder ==
  /\ CanGesture
  /\ UIFree
  /\ win' = [win EXCEPT !.output_path_entry = "out"]
  /\ user' = [user EXCEPT !.gestures = @ + 1]
  /\ UNCHANGED <<rq, dlg, wk, sigq, font_cache, outFiles, aborted>>

\* ------------------------------------------------------------------------
\* Python references: the worker's config map holds dict objects; a key in
\* "shared" holds the very dict object the window's map holds under that key
\* ------------------------------------------------------------------------
\* the contents of the dicts in the worker's map of feature f, as they are now
WorkerConfigs(r, f) ==
  LET st == wk[r].settings[f]
  IN [k \in DOMAIN st.configs |->
        IF k \in st.shared THEN win.configs_by_size[f][k] ELSE st.configs[k]]

\* the window drops its dicts under keys of feature f (a new dict is bound
\* there): a worker that shares one keeps the old object, with its contents
Detach(f, keys) ==
  [r \in Runs |->
     [wk[r] EXCEPT !.settings[f] =
        [configs |-> [k \in DOMAIN @.configs |->
                        IF k \in @.shared \cap keys
                        THEN win.configs_by_size[f][k] ELSE @.configs[k]],
         shared |-> @.shared \ keys,
         default |-> @.default]]]

\* ------------------------------------------------------------------------
\* ui/features_panel.py, ui/preset_actions.py: handlers that edit configs
\* ------------------------------------------------------------------------
\* the stamp images the user can pick, with their native size
StampFiles == {"wide.png"}
stamp_w_pts(path) == 200
stamp_h_pts(path) == 100

\* sync_aspect of select_stamp_file: cfg is changed in place
sync_aspect(cfg, path) ==
  IF Get(cfg, "maintain_aspect", TRUE)
  THEN LET current_w == Get(cfg, "stamp_width_mm", 50)
           current_h == Get(cfg, "stamp_height_mm", 50)
       IN IF current_w >= current_h
          THEN Merge(cfg, [stamp_height_mm |-> (current_w * stamp_h_pts(path)) \div stamp_w_pts(path)])
          ELSE Merge(cfg, [stamp_width_mm |-> (current_h * stamp_w_pts(path)) \div stamp_h_pts(path)])
  ELSE cfg

select_stamp_file ==
  /\ UIFree
  /\ CanEdit
  /\ \E file_path \in StampFiles :
        win' = [win EXCEPT
                  !.current_stamp_path = file_path,
                  !.configs_by_size["stamp"] =
                      [k \in DOMAIN @ |-> sync_aspect(@[k], file_path)],
                  !.default_config["stamp"] = sync_aspect(@, file_path)]
  /\ user' = [edits |-> user.edits + 1, gestures |-> user.gestures + 1]
  /\ \E c \in Rendered(win') : font_cache' = [font_cache EXCEPT ![0] = c]
  /\ UNCHANGED <<rq, dlg, wk, sigq, outFiles, aborted>>

\* determine_default_config
determine_default_config(configs, fallback) ==
  IF <<"A4", "portrait">> \in DOMAIN configs THEN configs[<<"A4", "portrait">>]
  ELSE IF DOMAIN configs # {} THEN configs[CHOOSE k \in DOMAIN configs : TRUE]
  ELSE fallback

\* what the user changes in a configuration dialog before accepting it
EditKeys == { <<"A4", "portrait">>, <<"Unknown", "portrait">> }
DialogEdits == { [page_selection |-> "last"] }

\* open_text_configuration, open_timestamp_configuration,
\* open_stamp_configuration, accepted: the window's map is rebound to copies
\* of the dialog's configs
open_configuration(f) ==
  /\ UIFree
  /\ CanEdit
  /\ \E k \in EditKeys, e \in DialogEdits :
        LET new == [win.configs_by_size[f] EXCEPT ![k] = Merge(@, e)]
        IN win' = [win EXCEPT
                     !.configs_by_size[f] = new,
                     !.default_config[f] = determine_default_config(new, DEFAULT_CONFIG(f))]
  /\ wk' = Detach(f, ALL_PAPER_KEYS)
  /\ user' = [edits |-> user.edits + 1, gestures |-> user.gestures + 1]
  /\ \E c \in Rendered(win') : font_cache' = [font_cache EXCEPT ![0] = c]
  /\ UNCHANGED <<rq, dlg, sigq, outFiles, aborted>>

\* the configs of the one stored preset
PresetConfigs(f) ==
  [k \in ALL_PAPER_KEYS |-> Merge(InitConfig(f), [page_selection |-> "odd"])]

\* apply_preset_to_ui: each preset config is copied into the window's map
apply_preset_to_ui ==
  /\ UIFree
  /\ CanEdit
  /\ LET new == [f \in Features |->
                   [k \in DOMAIN win.configs_by_size[f] |->
                      IF k \in DOMAIN PresetConfigs(f)
                      THEN PresetConfigs(f)[k] ELSE win.configs_by_size[f][k]]]
     IN win' = [win EXCEPT
                  !.configs_by_size = new,
                  !.default_config =
                      [f \in Features |-> determine_default_config(new[f], DEFAULT_CONFIG(f))],
                  !.current_stamp_path = "wide.png"]
  /\ wk' = [r \in Runs |->
              [wk[r] EXCEPT !.settings =
                 [f \in Features |-> Detach(f, DOMAIN PresetConfigs(f))[r].settings[f]]]]
  /\ user' = [edits |-> user.edits + 1, gestures |-> user.gestures + 1]
  /\ \E c \in Rendered(win') : font_cache' = [font_cache EXCEPT ![0] = c]
  /\ UNCHANGED <<rq, dlg, sigq, outFiles, aborted>>

\* ------------------------------------------------------------------------
\* ui/processing.py: process_all_pdfs
\* ------------------------------------------------------------------------
\* get_existing_output_files: the save paths of the selected files that exist
get_existing_output_files(selected, input_root, fs) ==
  { save_path(f, input_root) : f \in { g \in Range(selected) : save_path(g, input_root) \in fs } }

\* a copy of the map only: a new map of the same dicts
shallow_copy(configs) == [configs |-> configs, shared |-> DOMAIN configs]

\* copy.deepcopy of a config map: a new map of new dicts
deepcopy(configs) == [configs |-> configs, shared |-> {}]

\* the payload of one feature
Payload(f) ==
  [configs |-> deepcopy(win.configs_by_size[f]).configs,
   shared |-> deepcopy(win.configs_by_size[f]).shared,
   default |-> win.default_config[f]]

\* the feature check boxes at the time of the click
FeatureChoices ==
  { {"Text Insertion"}, {"Timestamp Insertion", "Stamp Insertion", "PDF Security"} }

\* the next run to be created
NextRun == CHOOSE r \in Runs : wk[r].pc = "none" /\ \A q \in Runs : wk[q].pc = "none" => r <= q

\* process_all_pdfs up to the overwrite warning: the inputs are validated,
\* existing outputs are detected and the user accepts the warning listing
\* them (a rejected warning returns and changes nothing)
process_all_pdfs_check ==
  /\ CanGesture
  /\ UIFree
  /\ win.selected_pdf_paths # <<>>
  /\ win.output_path_entry # ""
  /\ \E r \in Runs : wk[r].pc = "none"
  /\ win' = [win EXCEPT
               !.pc = "confirm",
               !.existing_files =
                   get_existing_output_files(win.selected_pdf_paths, win.input_path_entry, outFiles)]
  /\ user' = [user EXCEPT !.gestures = @ + 1]
  /\ UNCHANGED <<rq, dlg, wk, sigq, font_cache, outFiles, aborted>>

\* process_all_pdfs returns without starting: security without a password,
\* no feature enabled, or "No" in the confirmation box
process_all_pdfs_return ==
  /\ ~aborted
  /\ win.pc = "confirm"
  /\ win' = [win EXCEPT !.pc = "idle", !.existing_files = {}]
  /\ UNCHANGED <<rq, dlg, wk, sigq, font_cache, outFiles, aborted, user>>

\* the thread object t loses its last reference: a thread that has finished
\* is deleted with everything it holds
Dispose(t) ==
  [r \in Runs |-> IF r = t /\ wk[r].pc = "done" THEN [NoWorker EXCEPT !.pc = "deleted"] ELSE wk[r]]

\* the rest of process_all_pdfs: payloads, confirmation, progress dialog,
\* thread creation, signal wiring, start
process_all_pdfs_start ==
  /\ ~aborted
  /\ win.pc = "confirm"
  /\ \E features \in FeatureChoices :
       LET r == NextRun
       IN /\ win' = [win EXCEPT !.pc = "idle", !.existing_files = {},
                                !._progress_dialog = r, !._worker_thread = r]
          /\ dlg' = [dlg EXCEPT ![r] = [visible |-> TRUE, value |-> 0, label |-> <<"Initializing...">>]]
          /\ wk' = [Dispose(win._worker_thread) EXCEPT ![r] =
                      [NoWorker EXCEPT
                         !.pc = "start",
                         !.files = win.selected_pdf_paths,
                         !.input_root = win.input_path_entry,
                         !.features = features,
                         !.settings = [f \in Features |-> Payload(f)],
                         !.stamp_path = win.current_stamp_path,
                         !.given = [f \in Features |-> Payload(f)],
                         !.existed = outFiles,
                         !.warned = win.existing_files]]
  /\ UNCHANGED <<rq, sigq, font_cache, outFiles, aborted, user>>

\* Rebinding win._worker_thread drops the only reference to the QThread it
\* held; Qt ends the process when a QThread is destroyed while running
DropsRunningThread == win._worker_thread # 0 /\ Running(win._worker_thread)

process_all_pdfs_abort ==
  /\ ~aborted
  /\ win.pc = "confirm"
  /\ DropsRunningThread
  /\ aborted' = TRUE
  /\ UNCHANGED <<rq, win, dlg, wk, sigq, font_cache, outFiles, user>>

\* ------------------------------------------------------------------------
\* ProgressDialog: the cancel button and the window's close button
\* ------------------------------------------------------------------------
\* cancel_btn.clicked of the dialog of run r: requestInterruption of that
\* run's thread (no effect on a thread that is not running), and the label
\* of the dialog win._progress_dialog names
CancelClicked(r) ==
  /\ CanGesture
  /\ ~aborted
  /\ win.pc = "idle"
  /\ dlg[r].visible
  /\ wk' = [wk EXCEPT ![r].interruption = IF Running(r) THEN TRUE ELSE @]
  /\ dlg' = [dlg EXCEPT ![win._progress_dialog].label = <<"Stopping...">>]
  /\ user' = [user EXCEPT !.gestures = @ + 1]
  /\ UNCHANGED <<rq, win, sigq, font_cache, outFiles, aborted>>

\* QDialog.reject (Escape, or the title bar's close button): ProgressDialog
\* overrides neither reject nor closeEvent, so the dialog hides
DismissProgressDialog(r) ==
  /\ CanGesture
  /\ ~aborted
  /\ win.pc = "idle"
  /\ dlg[r].visible
  /\ dlg' = [dlg EXCEPT ![r].visible = FALSE]
  /\ user' = [user EXCEPT !.gestures = @ + 1]
  /\ UNCHANGED <<rq, win, wk, sigq, font_cache, outFiles, aborted>>

\* ------------------------------------------------------------------------
\* Slots run on the main thread, one queued signal at a time
\* ------------------------------------------------------------------------
_on_worker_progress ==
  /\ ~aborted
  /\ sigq # <<>>
  /\ Head(sigq).sig = "progress_update"
  /\ dlg' = IF win._progress_dialog # 0
            THEN [dlg EXCEPT ![win._progress_dialog].value = Head(sigq).idx,
                             ![win._progress_dialog].label = Head(sigq).msg]
            ELSE dlg
  /\ sigq' = Tail(sigq)
  /\ UNCHANGED <<rq, win, wk, font_cache, outFiles, aborted, user>>

append_log ==
  /\ ~aborted
  /\ sigq # <<>>
  /\ Head(sigq).sig = "log_message"
  /\ win' = [win EXCEPT !.log_viewer = Append(@, Head(sigq).msg)]
  /\ sigq' = Tail(sigq)
  /\ UNCHANGED <<rq, dlg, wk, font_cache, outFiles, aborted, user>>

\* _show_processing_result: the box shown
_show_processing_result(canceled, success, errors, error_list) ==
  IF canceled THEN [title |-> "Cancelled", success |-> success, errors |-> errors]
  ELSE IF errors = 0 THEN [title |-> "Complete", success |-> success, errors |-> 0]
  ELSE [title |-> "Completed with Errors", success |-> success, errors |-> errors]

_on_worker_finished ==
  /\ ~aborted
  /\ sigq # <<>>
  /\ Head(sigq).sig = "finished_processing"
  /\ dlg' = IF win._progress_dialog # 0
            THEN [dlg EXCEPT ![win._progress_dialog].visible = FALSE]
            ELSE dlg
  /\ win' = [win EXCEPT
               !.result_box = _show_processing_result(Head(sigq).canceled, Head(sigq).success,
                                                      Head(sigq).errors, Head(sigq).error_list),
               !._worker_thread = 0]
  /\ wk' = Dispose(win._worker_thread)
  /\ sigq' = Tail(sigq)
  /\ UNCHANGED <<rq, font_cache, outFiles, aborted, user>>

\* win._worker_thread = None while the thread it names is still running
_on_worker_finished_abort ==
  /\ ~aborted
  /\ sigq # <<>>
  /\ Head(sigq).sig = "finished_processing"
  /\ DropsRunningThread
  /\ aborted' = TRUE
  /\ UNCHANGED <<rq, win, dlg, wk, sigq, font_cache, outFiles, user>>

\* MainWindow.manage_substitutions: the saved definitions are handed to the
\* engine object the window owns
manage_substitutions ==
  /\ UIFree
  /\ CanEdit
  /\ win.substitution_definitions = "default"
  /\ win' = [win EXCEPT !.substitution_definitions = "custom"]
  /\ user' = [edits |-> user.edits + 1, gestures |-> user.gestures + 1]
  /\ \E c \in Rendered(win') : font_cache' = [font_cache EXCEPT ![0] = c]
  /\ UNCHANGED <<rq, dlg, wk, sigq, outFiles, aborted>>

\* ------------------------------------------------------------------------
\* ui/processing.py: PDFProcessingThread.run
\* ------------------------------------------------------------------------
\* a signal emitted by run r is queued to the main thread
Emit(r, w, s) == [w EXCEPT !.emitted = Append(@, s)]

\* self.pdf_ops, the instance run r applies text and stamps with:
\* process_all_pdfs passes pdf_ops_instance=win.pdf_ops, the window's (0)
pdf_ops_instance(r) == 0

\* the start of run(): local_pdf_ops and the PreparedStamp
WorkerInit(r) ==
  /\ ~aborted
  /\ wk[r].pc = "start"
  /\ wk' = [wk EXCEPT ![r].pc = "loop",
                      ![r].prepared_stamp =
                          ("Stamp Insertion" \in wk[r].features /\ wk[r].stamp_path # "")]
  /\ UNCHANGED <<rq, win, dlg, sigq, font_cache, outFiles, aborted, user>>

\* a completion signal that reports the request instead of the flag
finished_processing_requested(r, w) ==
  [sig |-> "finished_processing", run |-> r, canceled |-> w.interruption,
   success |-> w.success_count, errors |-> w.error_count, error_list |-> w.errors]

\* the signals of run r; run names the sending thread
finished_processing(r, w) ==
  [sig |-> "finished_processing", run |-> r, canceled |-> w._is_canceled,
   success |-> w.success_count, errors |-> w.error_count, error_list |-> w.errors]

\* a progress signal that counts files from one
progress_update_from_one(r, w) ==
  [sig |-> "progress_update", run |-> r, idx |-> w.idx + 1,
   msg |-> <<"Processing: ", basename(w.files[w.idx + 1])>>]

progress_update(r, w) ==
  [sig |-> "progress_update", run |-> r, idx |-> w.idx,
   msg |-> <<"Processing: ", basename(w.files[w.idx + 1])>>]

log_message(r, file) ==
  [sig |-> "log_message", run |-> r, msg |-> <<"Failed ", basename(file)>>]

\* a check that never sees the request
never_interrupted(w) == FALSE

\* QThread.isInterruptionRequested
isInterruptionRequested(w) == w.interruption

\* the top of one loop iteration: the end of the list, the interruption
\* check, or the progress signal of the next file
WorkerLoop(r) ==
  /\ ~aborted
  /\ wk[r].pc = "loop"
  /\ LET w == wk[r]
         stop == w.idx < Len(w.files) /\ isInterruptionRequested(w)
         w1 == [w EXCEPT !._is_canceled = IF stop THEN TRUE ELSE @]
         s == IF w.idx = Len(w.files) \/ stop
              THEN finished_processing(r, w1)
              ELSE progress_update(r, w)
     IN /\ wk' = [wk EXCEPT ![r] =
                    [Emit(r, w1, s) EXCEPT
                       !.pc = IF s.sig = "finished_processing" THEN "done" ELSE "file"]]
        /\ sigq' = Append(sigq, s)
  /\ UNCHANGED <<rq, win, dlg, font_cache, outFiles, aborted, user>>

\* the config run r resolves for page i (0-based) of a file, per feature
WorkerResolve(r, f, file, i) ==
  _get_config(load_page(file, i + 1), WorkerConfigs(r, f), wk[r].settings[f].default)

\* the feature flag that enables each payload
FeatureFlag(f) ==
  CASE f = "text" -> "Text Insertion"
    [] f = "timestamp" -> "Timestamp Insertion"
    [] f = "stamp" -> "Stamp Insertion"

\* page i of the file gets feature f
Applies(r, f, file, i) ==
  /\ FeatureFlag(f) \in wk[r].features
  /\ f = "stamp" => wk[r].prepared_stamp
  /\ _check_selection(i, page_count(file), WorkerResolve(r, f, file, i))

\* the fonts apply_text_to_page asks get_font for, over the file's pages
FileFonts(r, file) ==
  { font_key(WorkerResolve(r, f, file, i)) :
      <<f, i>> \in { x \in {"text", "timestamp"} \X (0..(page_count(file) - 1)) :
                       Applies(r, x[1], file, x[2]) } }

\* the opacity keys PreparedStamp.get_bytes is asked for
FileStampKeys(r, file) ==
  { Get(WorkerResolve(r, "stamp", file, i), "stamp_opacity", 100) :
      i \in { j \in 0..(page_count(file) - 1) : Applies(r, "stamp", file, j) } }

\* an except branch that logs the failure without counting it
OnExceptionUncounted(w, file) ==
  [w EXCEPT !.errors = Append(@, <<"Failed ", basename(file)>>),
            !.raised = @ \cup {w.idx}]

\* the except branch: one message, one log signal, one count
OnException(w, file) ==
  [w EXCEPT !.errors = Append(@, <<"Failed ", basename(file)>>),
            !.error_count = @ + 1,
            !.raised = @ \cup {w.idx}]

\* a try block that saves without counting
OnSavedUncounted(w, path) ==
  [w EXCEPT !.written = @ \cup {path},
            !.overwritten = @ \cup ({path} \cap w.existed)]

\* the try block
OnSaved(w, path) ==
  [w EXCEPT !.success_count = @ + 1,
            !.written = @ \cup {path},
            !.overwritten = @ \cup ({path} \cap w.existed)]

\* the body of one loop iteration after the progress signal: open, the pages,
\* save; fitz raises at the open ("open"), on a page ("page") or in save
WorkerFile(r) ==
  /\ ~aborted
  /\ wk[r].pc = "file"
  /\ \E outcome \in {"ok", "open", "page", "save"} :
       LET w == wk[r]
           file == w.files[w.idx + 1]
           path == worker_save_path(file, w.input_root)
           opened == outcome # "open"
           pages == outcome \in {"ok", "save"}
           fonts == IF pages THEN FileFonts(r, file) ELSE {}
           keys == IF pages THEN FileStampKeys(r, file) ELSE {}
           reads == opened /\ "Text Insertion" \in w.features
           w1 == [w EXCEPT
                    !.definitions_read =
                        IF reads THEN @ \cup {win.substitution_definitions} ELSE @,
                    !.touched = @ \cup (IF reads THEN {"substitution_engine"} ELSE {})
                                  \cup (IF fonts # {} THEN {"pdf_ops"} ELSE {}),
                    !.used_ops = @ \cup (IF fonts # {} THEN {pdf_ops_instance(r)} ELSE {}),
                    !.stamp_cache = @ \cup keys]
           w2 == IF outcome = "ok" THEN OnSaved(w1, path) ELSE OnException(w1, file)
           s == log_message(r, file)
       IN /\ wk' = [wk EXCEPT ![r] =
                      [(IF outcome = "ok" THEN w2 ELSE Emit(r, w2, s)) EXCEPT
                         !.idx = @ + 1, !.pc = "loop"]]
          /\ sigq' = IF outcome = "ok" THEN sigq ELSE Append(sigq, s)
          /\ font_cache' = [font_cache EXCEPT ![pdf_ops_instance(r)] = @ \cup fonts]
          /\ outFiles' = IF outcome = "ok" THEN outFiles \cup {path} ELSE outFiles
  /\ UNCHANGED <<rq, win, dlg, aborted, user>>
\* ------------------------------------------------------------------------
\* The batch engine and its window
\* ------------------------------------------------------------------------
Next ==
  \/ pick_input_folder
  \/ refresh_selected_files_list
  \/ pick_output_folder
  \/ select_stamp_file
  \/ \E f \in Features : open_configuration(f)
  \/ apply_preset_to_ui
  \/ manage_substitutions
  \/ render_current_page
  \/ process_all_pdfs_check
  \/ process_all_pdfs_return
  \/ process_all_pdfs_start
  \/ process_all_pdfs_abort
  \/ \E r \in Runs : CancelClicked(r)
  \/ \E r \in Runs : DismissProgressDialog(r)
  \/ _on_worker_progress
  \/ append_log
  \/ _on_worker_finished
  \/ _on_worker_finished_abort
  \/ \E r \in Runs : WorkerInit(r)
  \/ \E r \in Runs : WorkerLoop(r)
  \/ \E r \in Runs : WorkerFile(r)

Spec == Init /\ [][Next]_vars
\* ------------------------------------------------------------------------
\* Resolving one page's config in the preview and in the worker
\* ------------------------------------------------------------------------
\* side lengths of the pages resolved, in points: around the A4 sides and
\* their tolerance, and a size no paper has
Sides == {300, 585, 595, 606, 842, 852, 853}
Rotations == {0, 90, 180, 270}

\* a config that tells which entry it is
Tagged(k) == Merge(DEFAULT_TEXT_CONFIG, [entry |-> k])

\* the config maps resolved against: every key, some keys, no key
ResolveMaps ==
  { [k \in ALL_PAPER_KEYS |-> Tagged(k)],
    [k \in ALL_PAPER_KEYS \ {<<"A4", "landscape">>, <<"Unknown", "portrait">>} |-> Tagged(k)],
    [k \in {} |-> Tagged(k)] }

InitResolve ==
  /\ InitWindow
  /\ rq \in [stage : {"asked"},
             page : [w : Sides, h : Sides, rot : Rotations],
             target_map : ResolveMaps,
             default : {Tagged(<<"default">>)},
             preview : {<<>>},
             batch : {<<>>}]

\* the preview resolves the page: get_config_for_page_size
ResolveInPreview ==
  /\ rq.stage = "asked" /\ rq.preview = <<>>
  /\ rq' = [rq EXCEPT !.preview = <<get_config_for_page_size(rq.page, rq.target_map, rq.default)>>]
  /\ UNCHANGED <<win, dlg, wk, sigq, font_cache, outFiles, aborted, user>>

\* the worker resolves the page: PDFProcessingThread._get_config
ResolveInBatch ==
  /\ rq.stage = "asked" /\ rq.batch = <<>>
  /\ rq' = [rq EXCEPT !.batch = <<_get_config(rq.page, rq.target_map, rq.default)>>]
  /\ UNCHANGED <<win, dlg, wk, sigq, font_cache, outFiles, aborted, user>>

NextResolve == ResolveInPreview \/ ResolveInBatch

SpecResolve == InitResolve /\ [][NextResolve]_vars

\* ------------------------------------------------------------------------
\* Deciding whether a feature applies to a page, in the preview and in
\* the worker
\* ------------------------------------------------------------------------
\* longest custom-range string tried, and most pages of a document
MaxLen == 4
MaxTotal == 3

\* the six modes of the configuration dialog and a string that is none of them
SelectModes == {"all", "first", "last", "odd", "even", "custom", "ALL"}

\* the characters of the custom-range strings
SelectAlphabet == {"1", "3", "-", ",", " ", "x"}
CustomStrings == UNION { [1..n -> SelectAlphabet] : n \in 0..MaxLen }

\* the configs a page resolves to: every mode, every custom string, and a
\* config with no page_selection entry
SelectConfigs ==
  { [page_selection |-> m, custom_pages |-> <<>>] : m \in SelectModes \ {"custom"} }
    \cup { [page_selection |-> "custom", custom_pages |-> s] : s \in CustomStrings }
    \cup { [custom_pages |-> <<"1">>] }

\* the page asked about, and the map that holds its config
SelectPage == [w |-> 595, h |-> 842, rot |-> 0]
SelectMap(cfg) == [k \in {<<"A4", "portrait">>} |-> cfg]

InitSelect ==
  /\ InitWindow
  /\ \E total \in 1..MaxTotal :
       rq \in [stage : {"select"},
               cfg : SelectConfigs,
               idx : 0..(total - 1),
               total : {total},
               preview : {<<>>},
               batch : {<<>>},
               parsed : {<<>>}]

\* render_current_page asks is_page_in_selection(win, idx, total, feature, page),
\* which in custom mode calls parse_custom_pages(custom_str, total_pages)
SelectInPreview ==
  /\ rq.stage = "select" /\ rq.preview = <<>>
  /\ rq' = [rq EXCEPT
              !.preview =
                 <<is_page_in_selection(rq.idx, rq.total, SelectPage,
                                        SelectMap(rq.cfg), DEFAULT_TEXT_CONFIG)>>,
              !.parsed =
                 IF Get(rq.cfg, "page_selection", "all") = "custom"
                 THEN <<parse_custom_pages(Get(rq.cfg, "custom_pages", <<>>), rq.total)>>
                 ELSE @]
  /\ UNCHANGED <<win, dlg, wk, sigq, font_cache, outFiles, aborted, user>>

\* run() asks _check_selection(i, total, _get_config(page, configs, default))
SelectInBatch ==
  /\ rq.stage = "select" /\ rq.batch = <<>>
  /\ rq' = [rq EXCEPT !.batch =
              <<_check_selection(rq.idx, rq.total,
                                 _get_config(SelectPage, SelectMap(rq.cfg),
                                             DEFAULT_TEXT_CONFIG))>>]
  /\ UNCHANGED <<win, dlg, wk, sigq, font_cache, outFiles, aborted, user>>

NextSelect == SelectInPreview \/ SelectInBatch

SpecSelect == InitSelect /\ [][NextSelect]_vars

\* ------------------------------------------------------------------------
\* The order of the features on a page, in the worker and in the preview
\* ------------------------------------------------------------------------
\* a feature order with the stamp block moved to the front
StampFirstOrder == <<"stamp", "text", "timestamp">>

\* the order of the three "if self.features[...]" blocks of run()
FeatureOrder == <<"text", "timestamp", "stamp">>

\* the order of the three "if should_draw_..." blocks of render_current_page
PreviewOrder == <<"text", "timestamp", "stamp">>

\* the page-selection modes of the features whose order is followed
OrderModes == {"all", "last"}

\* the config of feature f in its own map, with page-selection mode m
OrderConfig(f, m) == [page_selection |-> m, custom_pages |-> <<>>, entry |-> <<f>>]

\* one operation on a page: the feature, the page index, the config used
Op(f, i, cfg) == [f |-> f, i |-> i, cfg |-> cfg]

InitOrder ==
  /\ InitWindow
  /\ \E total \in 1..MaxTotal, who \in {"batch", "preview"} :
       rq \in [stage : {"order"},
               who : {who},
               enabled : SUBSET Features,
               has : SUBSET Features,
               modes : [Features -> OrderModes],
               total : {total},
               i : IF who = "batch" THEN {0} ELSE 0..(total - 1),
               pos : {1},
               ops : {<<>>}]

\* the config the worker resolves for feature f on the page
OrderResolve(f) ==
  _get_config(SelectPage, SelectMap(OrderConfig(f, rq.modes[f])), DEFAULT_CONFIG(f))

\* run(): the block of the feature at position pos, on page i
BatchFeature ==
  /\ rq.stage = "order" /\ rq.who = "batch" /\ rq.i < rq.total
  /\ LET f == FeatureOrder[rq.pos]
         cfg == OrderResolve(f)
         applies == /\ f \in rq.enabled
                    /\ f = "stamp" => "stamp" \in rq.has
                    /\ _check_selection(rq.i, rq.total, cfg)
     IN rq' = [rq EXCEPT
                 !.ops = IF applies THEN Append(@, Op(f, rq.i, cfg)) ELSE @,
                 !.pos = IF rq.pos = Len(FeatureOrder) THEN 1 ELSE @ + 1,
                 !.i = IF rq.pos = Len(FeatureOrder) THEN @ + 1 ELSE @]
  /\ UNCHANGED <<win, dlg, wk, sigq, font_cache, outFiles, aborted, user>>

\* run(): doc.save, after the loop over the pages
BatchSave ==
  /\ rq.stage = "order" /\ rq.who = "batch" /\ rq.i = rq.total /\ rq.pos = 1
  /\ rq' = [rq EXCEPT !.ops = Append(@, Op("save", rq.i, [entry |-> <<"save">>])),
                      !.pos = 0]
  /\ UNCHANGED <<win, dlg, wk, sigq, font_cache, outFiles, aborted, user>>

\* should_draw_text, should_draw_ts, should_draw_stamp
should_draw(f) ==
  /\ f \in rq.enabled
  /\ f \in rq.has
  /\ is_page_in_selection(rq.i, rq.total, SelectPage,
                          SelectMap(OrderConfig(f, rq.modes[f])), DEFAULT_CONFIG(f))

\* render_current_page: the features drawn on the copy of the current page
PreviewRender ==
  /\ rq.stage = "order" /\ rq.who = "preview" /\ rq.pos = 1
  /\ LET drawn == SelectSeq(PreviewOrder, should_draw)
     IN rq' = [rq EXCEPT
                 !.ops = [k \in DOMAIN drawn |->
                            Op(drawn[k], rq.i,
                               get_config_for_page_size(
                                 SelectPage,
                                 SelectMap(OrderConfig(drawn[k], rq.modes[drawn[k]])),
                                 DEFAULT_CONFIG(drawn[k])))],
                 !.pos = 0]
  /\ UNCHANGED <<win, dlg, wk, sigq, font_cache, outFiles, aborted, user>>

NextOrder == BatchFeature \/ BatchSave \/ PreviewRender

SpecOrder == InitOrder /\ [][NextOrder]_vars

\* ------------------------------------------------------------------------
\* core/pdf_operations.py: the stamp image, PreparedStamp and its cache
\* ------------------------------------------------------------------------
\* most pages that get the stamp in one batch
MaxCalls == 3

\* opacities are in thousandths: cfg["stamp_opacity"] / 100.0 with the
\* fractional percentages a preset file can hold; none is a rounding tie
Opacities == {250, 500, 501, 504, 506, 1000}

\* b"", and the PNG process_stamp_image makes for an opacity
EmptyBytes == <<>>
Png(opacity) == <<"PNG", opacity>>

\* where Image.open, the conversions and img.save can fail
StampOutcomes == {"ok", "decode_error", "process_error"}

\* "except Exception: return b''" left out: the error reaches the caller
stamp_error_uncaught == [bytes |-> EmptyBytes, raised |-> TRUE]

\* process_stamp_image: "except Exception as e: ... return b''"
stamp_error_caught == [bytes |-> EmptyBytes, raised |-> FALSE]

\* process_stamp_image(stamp_path, max_pixels, opacity)
process_stamp_image(opacity, outcome) ==
  IF outcome = "ok" THEN [bytes |-> Png(opacity), raised |-> FALSE]
  ELSE stamp_error_caught

\* a cache key that is the opacity as given
unrounded(opacity) == opacity

\* round(opacity, 2), in hundredths
round2(opacity) == (opacity + 5) \div 10

\* PreparedStamp._cache is a set of <<key, bytes>> with one pair per key
Cached(cache, key) == \E e \in cache : e[1] = key
CacheGet(cache, key) == (CHOOSE e \in cache : e[1] = key)[2]

\* PreparedStamp.get_bytes(opacity): the cache after the call, the bytes
\* returned, whether process_stamp_image was invoked and whether it raised
get_bytes(cache, opacity, outcome) ==
  LET key == round2(opacity)
      res == process_stamp_image(opacity, outcome)
  IN IF Cached(cache, key)
     THEN [cache |-> cache, bytes |-> CacheGet(cache, key),
           invoked |-> FALSE, raised |-> FALSE]
     ELSE IF res.raised
     THEN [cache |-> cache, bytes |-> EmptyBytes, invoked |-> TRUE, raised |-> TRUE]
     ELSE [cache |-> cache \cup {<<key, res.bytes>>}, bytes |-> res.bytes,
           invoked |-> TRUE, raised |-> FALSE]

\* the box _apply_stamp_logic asks for, in points (50 mm by 50 mm)
StampBox == <<142, 142>>

\* insert_stamp_bytes(page, img_bytes, x, y, width, height, rotation):
\* the size returned and whether the page was drawn on
insert_stamp_bytes(img_bytes, box, inserted) ==
  IF img_bytes = EmptyBytes THEN [ret |-> <<0, 0>>, drew |-> FALSE]
  ELSE IF inserted THEN [ret |-> box, drew |-> TRUE]
  ELSE [ret |-> <<0, 0>>, drew |-> FALSE]

InitStamp ==
  /\ InitWindow
  /\ rq = [stage |-> "stamp", _cache |-> {}, log |-> <<>>, raised |-> FALSE]

\* _apply_stamp_logic(page, cfg, prepared_stamp) for one page: get_bytes,
\* then insert_stamp_bytes; an error get_bytes lets through ends the file
apply_stamp_logic ==
  /\ rq.stage = "stamp" /\ Len(rq.log) < MaxCalls /\ ~rq.raised
  /\ \E opacity \in Opacities, outcome \in StampOutcomes, inserted \in BOOLEAN :
       LET g == get_bytes(rq._cache, opacity, outcome)
           ins == insert_stamp_bytes(g.bytes, StampBox, inserted)
       IN \* a cache hit runs no processor and empty bytes reach no
          \* insert_image: their outcomes are not drawn twice over
          /\ g.invoked \/ outcome = "ok"
          /\ g.bytes # EmptyBytes \/ inserted
          /\ rq' = [rq EXCEPT
                      !._cache = g.cache,
                      !.raised = g.raised,
                      !.log = Append(@, [opacity |-> opacity,
                                         invoked |-> g.invoked,
                                         outcome |-> outcome,
                                         bytes |-> g.bytes,
                                         ret |-> IF g.raised THEN <<0, 0>> ELSE ins.ret,
                                         drew |-> ~g.raised /\ ins.drew])]
  /\ UNCHANGED <<win, dlg, wk, sigq, font_cache, outFiles, aborted, user>>

\* run() starts the next batch: a new PreparedStamp with an empty cache
NewPreparedStamp ==
  /\ rq.stage = "stamp" /\ rq.log # <<>>
  /\ rq' = [rq EXCEPT !._cache = {}, !.log = <<>>, !.raised = FALSE]
  /\ UNCHANGED <<win, dlg, wk, sigq, font_cache, outFiles, aborted, user>>

NextStamp == apply_stamp_logic \/ NewPreparedStamp

SpecStamp == InitStamp /\ [][NextStamp]_vars

\* ------------------------------------------------------------------------
\* core/constants.py: classifying a size
\* ------------------------------------------------------------------------
\* the sizes classified: each reference size of PAPER_DEFINITIONS, moved by
\* these many points in width and in height
Offsets == {-11, -10, -9, 0, 9, 10, 11}

\* the tolerances passed: none, the default, one wider than the papers differ
Tolerances == {0, DIMENSION_TOLERANCE, 250}

InitClassify ==
  /\ InitWindow
  /\ rq \in [stage : {"classify"},
             entry : DOMAIN PAPER_DEFINITIONS,
             dw : Offsets,
             dh : Offsets,
             tol : Tolerances,
             result : {<<>>},
             key : {<<>>}]

\* the size asked about
AskedW == PAPER_DEFINITIONS[rq.entry][3] + rq.dw
AskedH == PAPER_DEFINITIONS[rq.entry][4] + rq.dh

\* detect_paper_key(width, height, tol)
Classify ==
  /\ rq.stage = "classify" /\ rq.result = <<>>
  /\ rq' = [rq EXCEPT !.result = <<detect_paper_key(AskedW, AskedH, rq.tol)>>]
  /\ UNCHANGED <<win, dlg, wk, sigq, font_cache, outFiles, aborted, user>>

\* the caller: the key _get_config looks up for an unrotated page of the size
ClassifyInCaller ==
  /\ rq.stage = "classify" /\ rq.key = <<>>
  /\ rq' = [rq EXCEPT !.key = <<WorkerPaperKey([w |-> AskedW, h |-> AskedH, rot |-> 0])>>]
  /\ UNCHANGED <<win, dlg, wk, sigq, font_cache, outFiles, aborted, user>>

NextClassify == Classify \/ ClassifyInCaller

SpecClassify == InitClassify /\ [][NextClassify]_vars

\* ------------------------------------------------------------------------
\* core/anchor.py: the top-left corner of a block on a page
\* ------------------------------------------------------------------------
\* Lengths are integers in units of 1/254 point, which makes the factor
\* 72 / 25.4 and the halving of the centred case exact.
DEFAULT_MARGIN_MM == 10

\* a length given in points
pts(p) == p * 254

\* a conversion that takes the millimetres for points
mm_as_points(mm) == mm * 254

\* mm_to_points(mm): mm * MM_TO_PTS_FACTOR, the factor being 72.0 / 25.4
mm_to_points(mm) == (mm * 72 * 2540) \div 254

\* "sub in s"
IsSubstring(sub, s) ==
  \E i \in 0..(Len(s) - Len(sub)) : SubSeq(s, i + 1, i + Len(sub)) = sub

\* the positions asked for: the nine of POSITION_PRESETS, a name with no
\* keyword, a name in lower case, and the empty string
AnchorPositions ==
  { <<"T","o","p"," ","L","e","f","t">>, <<"T","o","p"," ","C","e","n","t","e","r">>,
    <<"T","o","p"," ","R","i","g","h","t">>,
    <<"C","e","n","t","e","r"," ","L","e","f","t">>, <<"C","e","n","t","e","r">>,
    <<"C","e","n","t","e","r"," ","R","i","g","h","t">>,
    <<"B","o","t","t","o","m"," ","L","e","f","t">>,
    <<"B","o","t","t","o","m"," ","C","e","n","t","e","r">>,
    <<"B","o","t","t","o","m"," ","R","i","g","h","t">>,
    <<"M","i","d","d","l","e">>, <<"t","o","p"," ","l","e","f","t">>, <<>> }

\* the margins asked for, in millimetres
AnchorMargins == {0, 10, 25}

\* page sizes and block sizes in points, one block wider than the page
AnchorPages == { <<595, 842>>, <<842, 595>> }
AnchorBlocks == { <<0, 0>>, <<100, 142>>, <<900, 50>> }

\* an anchor that starts from the margins instead of the centred values
compute_anchor_from_margins(page_w, page_h, block_w, block_h, cfg) ==
  LET position == IF Get(cfg, "position", None) = <<>>
                  THEN <<"T","o","p"," ","L","e","f","t">>
                  ELSE cfg.position
      margin_x == mm_to_points(Get(cfg, "h_margin", DEFAULT_MARGIN_MM))
      margin_y == mm_to_points(Get(cfg, "v_margin", DEFAULT_MARGIN_MM))
      y_pos == IF IsSubstring(<<"B","o","t","t","o","m">>, position)
               /\ ~IsSubstring(<<"T","o","p">>, position)
               THEN pts(page_h) - margin_y - pts(block_h)
               ELSE margin_y
      x_pos == IF IsSubstring(<<"R","i","g","h","t">>, position)
               /\ ~IsSubstring(<<"L","e","f","t">>, position)
               THEN pts(page_w) - margin_x - pts(block_w)
               ELSE margin_x
  IN <<x_pos, y_pos>>

\* compute_anchor_for_pdf(page_w_pts, page_h_pts, block_w_pts, block_h_pts, cfg)
compute_anchor_for_pdf(page_w, page_h, block_w, block_h, cfg) ==
  LET position == IF Get(cfg, "position", None) = <<>>
                  THEN <<"T","o","p"," ","L","e","f","t">>
                  ELSE cfg.position
      margin_x == mm_to_points(Get(cfg, "h_margin", DEFAULT_MARGIN_MM))
      margin_y == mm_to_points(Get(cfg, "v_margin", DEFAULT_MARGIN_MM))
      y_pos == IF IsSubstring(<<"T","o","p">>, position) THEN margin_y
               ELSE IF IsSubstring(<<"B","o","t","t","o","m">>, position)
               THEN pts(page_h) - margin_y - pts(block_h)
               ELSE (pts(page_h) - pts(block_h)) \div 2
      x_pos == IF IsSubstring(<<"L","e","f","t">>, position) THEN margin_x
               ELSE IF IsSubstring(<<"R","i","g","h","t">>, position)
               THEN pts(page_w) - margin_x - pts(block_w)
               ELSE (pts(page_w) - pts(block_w)) \div 2
  IN <<x_pos, y_pos>>

InitAnchor ==
  /\ InitWindow
  /\ rq \in [stage : {"anchor"},
             page : AnchorPages,
             block : AnchorBlocks,
             cfg : [position : AnchorPositions, h_margin : AnchorMargins,
                    v_margin : AnchorMargins]
                     \cup { [h_margin |-> 25] },
             at : {<<>>}]

\* apply_text_to_page and _apply_stamp_logic ask for the anchor of a block
ComputeAnchor ==
  /\ rq.stage = "anchor" /\ rq.at = <<>>
  /\ rq' = [rq EXCEPT !.at = compute_anchor_for_pdf(rq.page[1], rq.page[2],
                                                    rq.block[1], rq.block[2], rq.cfg)]
  /\ UNCHANGED <<win, dlg, wk, sigq, font_cache, outFiles, aborted, user>>

NextAnchor == ComputeAnchor

SpecAnchor == InitAnchor /\ [][NextAnchor]_vars

\* ------------------------------------------------------------------------
\* core/pdf_operations.py: what process_stamp_image does to the image
\* ------------------------------------------------------------------------
\* pixel widths and heights of the stamp files, around the threshold
ImageSides == {1, 500, 999, 1000, 2000}

\* target_scale for an image of w by h pixels
target_scale(w, h) == IF w < 1000 \/ h < 1000 THEN 3 ELSE 1

\* the image process_stamp_image saves, for an opened image and an opacity
\* in thousandths: converted to RGBA, resized and sharpened when the scale
\* is above 1, its alpha scaled when the opacity is below 1.0
processed_image(img, opacity) ==
  LET scale == target_scale(img.w, img.h)
  IN [mode |-> "RGBA",
      w |-> IF scale > 1 THEN img.w * scale ELSE img.w,
      h |-> IF scale > 1 THEN img.h * scale ELSE img.h,
      sharpened |-> scale > 1,
      alpha |-> IF opacity < 1000 THEN opacity ELSE 1000]

InitScale ==
  /\ InitWindow
  /\ rq \in [stage : {"scale"},
             img : [mode : {"RGB", "RGBA"}, w : ImageSides, h : ImageSides],
             opacity : {500, 1000},
             out : {<<>>}]

\* process_stamp_image(stamp_path, max_pixels, opacity), the image decoded
ProcessStampImage ==
  /\ rq.stage = "scale" /\ rq.out = <<>>
  /\ rq' = [rq EXCEPT !.out = <<processed_image(rq.img, rq.opacity)>>]
  /\ UNCHANGED <<win, dlg, wk, sigq, font_cache, outFiles, aborted, user>>

SpecScale == InitScale /\ [][ProcessStampImage]_vars

\* ------------------------------------------------------------------------
\* core/substitution_engine.py: SubstitutionEngine.apply
\* ------------------------------------------------------------------------
\* the characters of the templates: "$", two letters, a blank, a line break
\* and a character that is no part of a name
TemplateAlphabet == {"$", "A", "B", " ", "\n", ":"}
Templates == UNION { [1..n -> TemplateAlphabet] : n \in 0..MaxLen }

\* the characters \w matches
Word == {"A", "B"} \cup Digits

\* what extract_values finds in a file name: the named groups that matched,
\* with their values; the file names are told apart by what they yield
FileNames == {"no match", "A is 7", "A is 7, AB is 8"}
extract_values(filename) ==
  CASE filename = "no match" -> [k \in {} |-> <<>>]
    [] filename = "A is 7" -> [k \in {<<"A">>} |-> <<"7">>]
    [] filename = "A is 7, AB is 8" ->
         [k \in {<<"A">>, <<"A", "B">>} |-> IF k = <<"A">> THEN <<"7">> ELSE <<"8">>]

\* the length of the longest run of \w characters of s that starts at i
WordRun(s, i) ==
  LET runs == { n \in 0..(Len(s) - i + 1) : \A k \in i..(i + n - 1) : s[k] \in Word }
  IN CHOOSE n \in runs : \A m \in runs : m <= n

\* re.fullmatch(r'\$(\w+)', s)
IsPlaceholder(s) == Len(s) >= 2 /\ s[1] = "$" /\ WordRun(s, 2) = Len(s) - 1

\* '\n'.join(lines)
RECURSIVE Join(_)
Join(lines) ==
  IF lines = <<>> THEN <<>>
  ELSE IF Len(lines) = 1 THEN lines[1]
  ELSE lines[1] \o <<"\n">> \o Join(Tail(lines))

\* a line filter that keeps every line
filter_nothing(raw_text, extracted_data) == [text |-> raw_text, missing |-> {}]

\* filter_lines(raw_text): the text kept and the keys recorded as missing
filter_lines(raw_text, extracted_data) ==
  LET lines == SplitOn(raw_text, "\n")
      dropped(line) == /\ IsPlaceholder(Strip(line))
                       /\ Tail(Strip(line)) \notin DOMAIN extracted_data
      kept(line) == ~dropped(line)
  IN [text |-> Join(SelectSeq(lines, kept)),
      missing |-> { Tail(Strip(lines[k])) : k \in { j \in DOMAIN lines : dropped(lines[j]) } }]

\* re.sub(r"\$(\w+)", replace_token, s): the text
RECURSIVE re_sub(_, _)
re_sub(s, extracted_data) ==
  IF s = <<>> THEN <<>>
  ELSE IF s[1] = "$" /\ WordRun(s, 2) > 0
  THEN LET n == WordRun(s, 2)
           key == SubSeq(s, 2, n + 1)
       IN (IF key \in DOMAIN extracted_data THEN extracted_data[key] ELSE <<>>)
            \o re_sub(SubSeq(s, n + 2, Len(s)), extracted_data)
  ELSE <<s[1]>> \o re_sub(Tail(s), extracted_data)

\* the keys replace_token records as missing
replace_token_missing(s, extracted_data) ==
  { SubSeq(s, i + 1, i + WordRun(s, i + 1)) :
      i \in { j \in DOMAIN s : s[j] = "$" /\ WordRun(s, j + 1) > 0 } }
    \ DOMAIN extracted_data

\* apply(text, filename): (final_text, missing_keys)
apply(text, filename) ==
  LET extracted_data == extract_values(filename)
      step1 == filter_lines(text, extracted_data)
  IN [final_text |-> re_sub(step1.text, extracted_data),
      missing_keys |-> step1.missing
                         \cup replace_token_missing(step1.text, extracted_data)]

InitApply ==
  /\ InitWindow
  /\ rq \in [stage : {"apply"}, text : Templates, filename : FileNames, out : {<<>>}]

\* run() asks substitution_engine.apply(raw_text, pdf_path) for each file
ApplyTemplate ==
  /\ rq.stage = "apply" /\ rq.out = <<>>
  /\ rq' = [rq EXCEPT !.out = <<apply(rq.text, rq.filename)>>]
  /\ UNCHANGED <<win, dlg, wk, sigq, font_cache, outFiles, aborted, user>>

SpecApply == InitApply /\ [][ApplyTemplate]_vars

\* ---------------------------------------------------------------------
\* Preset serialization: TextInsertionSettings.to_dict / from_dict with
\* configs_to_nested_structure and nested_structure_to_configs.
\* A key of the stored document is given by its parts between "|":
\* <<"A4">> is the key "A4", <<"A4", "portrait">> the legacy flat key
\* "A4|portrait".  A paper family name holds no "|".
\* ---------------------------------------------------------------------
PresetKeys == { <<"A4", "portrait">>, <<"A4", "landscape">>, <<"A3", "portrait">> }

\* the attribute maps: each attribute present or not
AttributeMaps ==
  { c \in UNION { [S -> {"Arial", "odd", "1"}] : S \in SUBSET {"font_family", "page_selection", "custom_pages"} } :
      /\ ("font_family" \in DOMAIN c => c["font_family"] = "Arial")
      /\ ("page_selection" \in DOMAIN c => c["page_selection"] = "odd")
      /\ ("custom_pages" \in DOMAIN c => c["custom_pages"] = "1") }

ConfigMaps == UNION { [K -> AttributeMaps] : K \in SUBSET PresetKeys }

\* configs_to_nested_structure with result[family] replaced on every key
\* instead of created once
configs_to_nested_replacing(configs) ==
  LET families == { k[1] : k \in DOMAIN configs }
      last(f) == CHOOSE m \in { k[2] : k \in { q \in DOMAIN configs : q[1] = f } } : TRUE
  IN [key \in { <<f>> : f \in families } |->
        [mode \in { last(key[1]) } |-> configs[<<key[1], mode>>]]]

configs_to_nested_structure(configs) ==
  LET families == { k[1] : k \in DOMAIN configs }
  IN [key \in { <<f>> : f \in families } |->
        [mode \in { k[2] : k \in { q \in DOMAIN configs : q[1] = key[1] } } |->
            configs[<<key[1], mode>>]]]

nested_structure_to_configs(data) ==
  LET nested == { <<key[1], mode>> : key \in { q \in DOMAIN data : Len(q) = 1 },
                                      mode \in {"portrait", "landscape"} }
      fromNested == { k \in nested : k[2] \in DOMAIN data[<<k[1]>>] }
      fromFlat == { key \in DOMAIN data : Len(key) = 2 }
  IN [k \in fromNested \cup fromFlat |->
        IF k \in fromFlat THEN data[k] ELSE data[<<k[1]>>][k[2]]]

to_dict(settings) ==
  [enabled |-> settings.enabled, text |-> settings.text,
   configs_by_size |-> configs_to_nested_structure(settings.configs_by_size)]

\* dict.get(name, default) on a stored document
DocGet(data, name, default) == IF name \in DOMAIN data THEN data[name] ELSE default

from_dict(data) ==
  LET configs == nested_structure_to_configs(DocGet(data, "configs_by_size", <<>>))
      legacy_page_selection == DocGet(data, "page_selection", "all")
      legacy_custom_pages == DocGet(data, "custom_pages", "")
      migrated(c) ==
        [a \in DOMAIN c \cup {"page_selection", "custom_pages"} |->
           IF a \in DOMAIN c THEN c[a]
           ELSE IF a = "page_selection" THEN legacy_page_selection
           ELSE legacy_custom_pages]
  IN [enabled |-> DocGet(data, "enabled", FALSE), text |-> DocGet(data, "text", ""),
      configs_by_size |-> [k \in DOMAIN configs |-> migrated(configs[k])]]

\* documents written by an older version: flat keys and a selection at the
\* level of the feature
LegacyDocuments ==
  { [configs_by_size |-> [k \in { <<"A4", "portrait">> } |-> c],
     page_selection |-> "first", custom_pages |-> "3"] : c \in AttributeMaps }
  \cup { [enabled |-> TRUE, configs_by_size |-> [k \in { <<"A3">> } |-> [m \in {"landscape"} |-> c]],
          page_selection |-> "first"] : c \in AttributeMaps }

InitPreset ==
  /\ InitWindow
  /\ rq \in { [stage |-> "preset", built |-> <<[enabled |-> e, text |-> "$A", configs_by_size |-> m]>>,
               data |-> <<>>, back |-> <<>>] : e \in BOOLEAN, m \in ConfigMaps }
       \cup { [stage |-> "preset", built |-> <<>>, data |-> <<doc>>, back |-> <<>>] :
                doc \in LegacyDocuments }

SerializePreset ==
  /\ rq.stage = "preset" /\ rq.built # <<>> /\ rq.data = <<>>
  /\ rq' = [rq EXCEPT !.data = <<to_dict(rq.built[1])>>]
  /\ UNCHANGED <<win, dlg, wk, sigq, font_cache, outFiles, aborted, user>>

DeserializePreset ==
  /\ rq.stage = "preset" /\ rq.data # <<>> /\ rq.back = <<>>
  /\ rq' = [rq EXCEPT !.back = <<from_dict(rq.data[1])>>]
  /\ UNCHANGED <<win, dlg, wk, sigq, font_cache, outFiles, aborted, user>>

NextPreset == SerializePreset \/ DeserializePreset

SpecPreset == InitPreset /\ [][NextPreset]_vars

\* ---------------------------------------------------------------------
\* The preset store: PresetManager over the files of the presets folder,
\* and the handlers of the Save Preset and Manage Presets dialogs.
\* A stored file holds the preset's name, created, modified (<<>> is
\* null, <<t>> a time) and its settings.  datetime.now() is the counter
\* rq.now, which advances with every write.
\* ---------------------------------------------------------------------
MaxClock == 3

\* names without the characters sanitize_filename translates
PresetNames == { <<"a", " ", "b">>, <<"a", "_", "b">>, <<"c">>, <<" ">> }
SettingsVersions == {"s0", "s1"}

\* re.sub(r'[\s_]+', '_', safe)
RECURSIVE Collapse(_)
Collapse(s) ==
  IF s = <<>> THEN <<>>
  ELSE IF s[1] \in {" ", "_"}
       THEN LET rest == { i \in DOMAIN s : s[i] \notin {" ", "_"} }
            IN <<"_">> \o (IF rest = {} THEN <<>>
                           ELSE Collapse(SubSeq(s, CHOOSE i \in rest : \A j \in rest : i <= j, Len(s))))
       ELSE <<s[1]>> \o Collapse(Tail(s))

\* safe.strip('_')
StripUnderscores(s) ==
  LET keep == { i \in DOMAIN s : s[i] # "_" }
  IN IF keep = {} THEN <<>>
     ELSE SubSeq(s, CHOOSE i \in keep : \A j \in keep : i <= j,
                    CHOOSE i \in keep : \A j \in keep : i >= j)

sanitize_filename(name) ==
  LET safe == StripUnderscores(Collapse(Strip(name)))
  IN IF safe = <<>> THEN <<"u", "n", "n", "a", "m", "e", "d">> ELSE safe

get_preset_path(name) == sanitize_filename(name) \o <<".", "j", "s", "o", "n">>

preset_exists(files, name) == get_preset_path(name) \in DOMAIN files

\* the files with one more, or one replaced
WithFile(files, path, content) ==
  [p \in DOMAIN files \cup {path} |-> IF p = path THEN content ELSE files[p]]

WithoutFile(files, path) == [p \in DOMAIN files \ {path} |-> files[p]]

\* Preset(name=...): created is the time of construction, modified None
NewPreset(name, settings, now) ==
  [name |-> name, created |-> now, modified |-> <<>>, settings |-> settings]

\* save_preset with the test of the overwrite flag left out
save_preset_replacing(files, preset, overwrite, now) ==
  IF Strip(preset.name) = <<>> THEN [ok |-> FALSE, files |-> files]
  ELSE LET filepath == get_preset_path(preset.name)
       IN [ok |-> TRUE,
           files |-> WithFile(files, filepath,
                       IF filepath \in DOMAIN files
                       THEN [preset EXCEPT !.modified = <<now>>] ELSE preset)]

\* save_preset with update_modified called on every save
save_preset_always_modified(files, preset, overwrite, now) ==
  IF Strip(preset.name) = <<>> THEN [ok |-> FALSE, files |-> files]
  ELSE LET filepath == get_preset_path(preset.name)
       IN IF filepath \in DOMAIN files /\ ~overwrite THEN [ok |-> FALSE, files |-> files]
          ELSE [ok |-> TRUE,
                files |-> WithFile(files, filepath, [preset EXCEPT !.modified = <<now>>])]

save_preset(files, preset, overwrite, now) ==
  IF Strip(preset.name) = <<>> THEN [ok |-> FALSE, files |-> files]
  ELSE LET filepath == get_preset_path(preset.name)
           file_exists == filepath \in DOMAIN files
       IN IF file_exists /\ ~overwrite THEN [ok |-> FALSE, files |-> files]
          ELSE [ok |-> TRUE,
                files |-> WithFile(files, filepath,
                            IF file_exists
                            THEN [preset EXCEPT !.modified = <<now>>] ELSE preset)]

rename_preset(files, old_name, new_name, now) ==
  LET old_path == get_preset_path(old_name)
      new_path == get_preset_path(new_name)
  IN IF Strip(new_name) = <<>> THEN [ok |-> FALSE, files |-> files]
     ELSE IF old_name = new_name THEN [ok |-> TRUE, files |-> files]
     ELSE IF old_path \notin DOMAIN files THEN [ok |-> FALSE, files |-> files]
     ELSE IF new_path \in DOMAIN files THEN [ok |-> FALSE, files |-> files]
     ELSE LET saved == save_preset(files, [files[old_path] EXCEPT !.name = new_name], FALSE, now)
          IN IF ~saved.ok THEN [ok |-> FALSE, files |-> saved.files]
             ELSE [ok |-> TRUE, files |-> WithoutFile(saved.files, old_path)]

\* import_preset: document is the content of the file at import_path,
\* new_name <<>> when none is given
import_preset(files, document, new_name, now) ==
  LET preset == IF new_name # <<>> THEN [document EXCEPT !.name = new_name] ELSE document
  IN IF preset_exists(files, preset.name) THEN [ok |-> FALSE, files |-> files]
     ELSE save_preset(files, preset, FALSE, now)

delete_preset(files, name) ==
  IF ~preset_exists(files, name) THEN [ok |-> FALSE, files |-> files]
  ELSE [ok |-> TRUE, files |-> WithoutFile(files, get_preset_path(name))]

\* preset files written elsewhere, offered to Import
ImportDocuments ==
  { [name |-> n, created |-> 0, modified |-> m, settings |-> "s0"] :
      n \in { <<"c">>, <<"a", "_", "b">> }, m \in { <<>>, <<0>> } }

\* the names the Manage Presets dialog lists: data["name"] of every file
ListedNames(files) == { files[p].name : p \in DOMAIN files }

\* the state after an operation: the files, the clock, the call and its result
Stored(op, source, name, result) ==
  [rq EXCEPT !.files = result.files,
             !.now = IF result.files # rq.files THEN rq.now + 1 ELSE rq.now,
             !.last = [op |-> op, source |-> source, name |-> name, ok |-> result.ok]]

InitStore ==
  /\ InitWindow
  /\ rq = [stage |-> "store", files |-> <<>>, now |-> 1,
           last |-> [op |-> "none", source |-> <<>>, name |-> <<>>, ok |-> TRUE]]

\* Save Preset: the dialog enables Save only for a name that is not blank
\* and not taken, then _gather_state_and_save_preset saves the window's state
SavePreset ==
  /\ rq.stage = "store" /\ rq.now <= MaxClock
  /\ \E text \in PresetNames, s \in SettingsVersions :
       LET name == Strip(text)
       IN /\ name # <<>> /\ ~preset_exists(rq.files, name)
          /\ rq' = Stored("save", <<>>, name,
                     save_preset(rq.files, NewPreset(name, s, rq.now),
                                 preset_exists(rq.files, name), rq.now))
  /\ UNCHANGED <<win, dlg, wk, sigq, font_cache, outFiles, aborted, user>>

\* PresetManager.save_preset(preset) called without the overwrite flag
SaveWithoutOverwrite ==
  /\ rq.stage = "store" /\ rq.now <= MaxClock
  /\ \E name \in PresetNames, s \in SettingsVersions :
       rq' = Stored("save", <<>>, name,
               save_preset(rq.files, NewPreset(name, s, rq.now), FALSE, rq.now))
  /\ UNCHANGED <<win, dlg, wk, sigq, font_cache, outFiles, aborted, user>>

\* ManagePresetsDialog._on_update_clicked, confirmed with Yes
UpdatePreset ==
  /\ rq.stage = "store" /\ rq.now <= MaxClock
  /\ \E name \in ListedNames(rq.files), s \in SettingsVersions :
       LET current_preset == NewPreset(<<"T", "e", "m", "p">>, s, rq.now)
           old_path == get_preset_path(name)
           original_created == IF old_path \in DOMAIN rq.files
                               THEN rq.files[old_path].created ELSE 0
           new_preset == [current_preset EXCEPT !.name = name, !.created = original_created]
       IN rq' = Stored("update", <<>>, name, save_preset(rq.files, new_preset, TRUE, rq.now))
  /\ UNCHANGED <<win, dlg, wk, sigq, font_cache, outFiles, aborted, user>>

\* PresetManager.rename_preset
RenamePreset ==
  /\ rq.stage = "store" /\ rq.now <= MaxClock
  /\ \E old_name \in PresetNames, new_name \in PresetNames :
       rq' = Stored("rename", old_name, new_name,
               rename_preset(rq.files, old_name, new_name, rq.now))
  /\ UNCHANGED <<win, dlg, wk, sigq, font_cache, outFiles, aborted, user>>

\* ManagePresetsDialog._on_duplicate_clicked
DuplicatePreset ==
  /\ rq.stage = "store" /\ rq.now <= MaxClock
  /\ \E name \in ListedNames(rq.files), text \in PresetNames :
       LET new_name == Strip(text)
           copy == [rq.files[get_preset_path(name)] EXCEPT
                      !.name = new_name, !.created = rq.now, !.modified = <<>>]
       IN /\ new_name # <<>>
          /\ rq' = Stored("duplicate", name, new_name,
                     IF preset_exists(rq.files, new_name)
                     THEN [ok |-> FALSE, files |-> rq.files]
                     ELSE save_preset(rq.files, copy, FALSE, rq.now))
  /\ UNCHANGED <<win, dlg, wk, sigq, font_cache, outFiles, aborted, user>>

\* PresetManager.import_preset
ImportPreset ==
  /\ rq.stage = "store" /\ rq.now <= MaxClock
  /\ \E document \in ImportDocuments, new_name \in { <<>> } \cup PresetNames :
       rq' = Stored("import", <<>>, IF new_name # <<>> THEN new_name ELSE document.name,
               import_preset(rq.files, document, new_name, rq.now))
  /\ UNCHANGED <<win, dlg, wk, sigq, font_cache, outFiles, aborted, user>>

\* PresetManager.delete_preset
DeletePreset ==
  /\ rq.stage = "store" /\ rq.now <= MaxClock
  /\ \E name \in PresetNames :
       rq' = Stored("delete", <<>>, name, delete_preset(rq.files, name))
  /\ UNCHANGED <<win, dlg, wk, sigq, font_cache, outFiles, aborted, user>>

NextStore ==
  \/ SavePreset \/ SaveWithoutOverwrite \/ UpdatePreset \/ RenamePreset
  \/ DuplicatePreset \/ ImportPreset \/ DeletePreset

SpecStore == InitStore /\ [][NextStore]_vars

\* ---------------------------------------------------------------------
\* Opacity, from the dialogs' spin boxes and the presets to the text
\* renderer and the stamp processor.  A stored opacity is an integer
\* percentage; the fraction handed on is given in thousandths.
\* ---------------------------------------------------------------------
\* what a user can type into a spin box
TypedValues == {0 - 5, 40, 250}

\* QSpinBox with range 0..100: a value outside is set to the nearest bound
opacity_spin(v) == IF v < 0 THEN 0 ELSE IF v > 100 THEN 100 ELSE v

\* the stored value handed on as it is
opacity_unscaled(percent) == percent * 1000

\* config.get(...) / 100, in thousandths
opacity_fraction(percent) == (percent * 1000) \div 100

\* the window's configs at start, from DEFAULT_TEXT_CONFIG and DEFAULT_STAMP_CONFIG
DefaultTextOpacity == [font_size |-> 12, text_opacity |-> 100, bg_opacity |-> 0]
DefaultStampOpacity == [stamp_rotation |-> 90, stamp_opacity |-> 100]

\* a preset written before the opacities were stored
LegacyOpacityPreset == [text |-> [font_size |-> 12], stamp |-> [stamp_rotation |-> 90]]

InitOpacity ==
  /\ InitWindow
  /\ rq \in { [stage |-> "opacity", text_cfg |-> DefaultTextOpacity, stamp_cfg |-> DefaultStampOpacity,
               preset |-> p, text_renderer |-> <<>>, stamp_processor |-> <<>>] :
                p \in { <<>>, <<LegacyOpacityPreset>> } }

\* TextConfigurationDialog: the config read back from the spin boxes
EditTextOpacity ==
  /\ rq.stage = "opacity"
  /\ \E t \in TypedValues, b \in TypedValues :
       rq' = [rq EXCEPT !.text_cfg =
                Merge(rq.text_cfg, [text_opacity |-> opacity_spin(t), bg_opacity |-> opacity_spin(b)])]
  /\ UNCHANGED <<win, dlg, wk, sigq, font_cache, outFiles, aborted, user>>

\* StampConfigurationDialog: the config read back from the spin box
EditStampOpacity ==
  /\ rq.stage = "opacity"
  /\ \E s \in TypedValues :
       rq' = [rq EXCEPT !.stamp_cfg = Merge(rq.stamp_cfg, [stamp_opacity |-> opacity_spin(s)])]
  /\ UNCHANGED <<win, dlg, wk, sigq, font_cache, outFiles, aborted, user>>

\* _gather_state_and_save_preset: the window's configs go into the preset
SaveOpacityPreset ==
  /\ rq.stage = "opacity"
  /\ rq' = [rq EXCEPT !.preset = <<[text |-> rq.text_cfg, stamp |-> rq.stamp_cfg]>>]
  /\ UNCHANGED <<win, dlg, wk, sigq, font_cache, outFiles, aborted, user>>

\* apply_preset_to_ui: the preset's configs replace the window's
LoadOpacityPreset ==
  /\ rq.stage = "opacity" /\ rq.preset # <<>>
  /\ rq' = [rq EXCEPT !.text_cfg = rq.preset[1].text, !.stamp_cfg = rq.preset[1].stamp]
  /\ UNCHANGED <<win, dlg, wk, sigq, font_cache, outFiles, aborted, user>>

\* apply_text_to_page: the call of insert_text_with_background
RenderTextOpacity ==
  /\ rq.stage = "opacity"
  /\ rq' = [rq EXCEPT !.text_renderer =
              <<[text_opacity |-> opacity_fraction(Get(rq.text_cfg, "text_opacity", 100)),
                 bg_opacity |-> opacity_fraction(Get(rq.text_cfg, "bg_opacity", 0))]>>]
  /\ UNCHANGED <<win, dlg, wk, sigq, font_cache, outFiles, aborted, user>>

\* _apply_stamp_logic: the call of prepared_stamp.get_bytes
RenderStampOpacity ==
  /\ rq.stage = "opacity"
  /\ rq' = [rq EXCEPT !.stamp_processor =
              <<opacity_fraction(Get(rq.stamp_cfg, "stamp_opacity", 100))>>]
  /\ UNCHANGED <<win, dlg, wk, sigq, font_cache, outFiles, aborted, user>>

NextOpacity ==
  \/ EditTextOpacity \/ EditStampOpacity \/ SaveOpacityPreset \/ LoadOpacityPreset
  \/ RenderTextOpacity \/ RenderStampOpacity

SpecOpacity == InitOpacity /\ [][NextOpacity]_vars

\* ------------------------------------------------------------------------
\* Properties
\* ------------------------------------------------------------------------
\* the runs whose thread object exists
Live(r) == wk[r].pc \in {"start", "loop", "file", "done"}

\* the step of run r in which fitz raised
Raises(r) == wk[r].pc = "file" /\ wk'[r].raised # wk[r].raised

\* C1: an exception raised while one file is opened, edited or saved is
\* caught in the worker: in that step error_count grows by exactly one, exactly
\* one message naming the file is added to the error list and logged, the
\* success count is untouched and the loop goes on to the next file; a run
\* of n files that was not cancelled and in which exactly one file failed
\* ends with success_count = n - 1 and error_count = 1.
C1_PartialFailure ==
  /\ [][\A r \in Runs :
          Raises(r) =>
            /\ wk'[r].error_count = wk[r].error_count + 1
            /\ wk'[r].errors = Append(wk[r].errors, <<"Failed ", basename(wk[r].files[wk[r].idx + 1])>>)
            /\ wk'[r].success_count = wk[r].success_count
            /\ sigq' = Append(sigq, log_message(r, wk[r].files[wk[r].idx + 1]))
            /\ wk'[r].pc = "loop"
            /\ wk'[r].idx = wk[r].idx + 1]_vars
  /\ [](\A r \in Runs :
          (wk[r].pc = "done" /\ ~wk[r]._is_canceled /\ Cardinality(wk[r].raised) = 1) =>
             /\ wk[r].success_count = Len(wk[r].files) - 1
             /\ wk[r].error_count = 1
             /\ Len(wk[r].errors) = 1)

\* a run of two files ended, not cancelled, after exactly one of them failed
C1_Witness ==
  \E r \in Runs :
     /\ wk[r].pc = "done" /\ ~wk[r]._is_canceled
     /\ Len(wk[r].files) = 2 /\ Cardinality(wk[r].raised) = 1
     /\ wk[r].success_count = 1
\* the progress signals run r has emitted, in order
RECURSIVE SelectSig(_, _)
SelectSig(q, kind) ==
  IF q = <<>> THEN <<>>
  ELSE IF Head(q).sig = kind THEN <<Head(q)>> \o SelectSig(Tail(q), kind)
  ELSE SelectSig(Tail(q), kind)

ProgressOf(r) == SelectSig(wk[r].emitted, "progress_update")

\* the files run r has completed (saved or failed)
Completed(r) == wk[r].success_count + wk[r].error_count

\* C2: cancellation is cooperative and checked once per file, at the top of
\* the loop iteration only: a file in progress when the interruption is
\* requested is still finished (counted as saved or failed), the cancelled
\* flag is only ever set at the top of an iteration, after a request the
\* next iteration opens and writes nothing and the run ends, and the
\* completion signal of a cancelled run carries the counts of the files
\* completed before it.
C2_CooperativeCancel ==
  /\ [][\A r \in Runs :
          /\ (wk[r].pc = "file" /\ wk[r].interruption /\ wk'[r].pc # "file") =>
                /\ wk'[r].pc = "loop"
                /\ wk'[r].success_count + wk'[r].error_count = Completed(r) + 1
                /\ ~wk'[r]._is_canceled
          /\ (~wk[r]._is_canceled /\ wk'[r]._is_canceled) => wk[r].pc = "loop"
          /\ (wk[r].pc = "loop" /\ wk[r].interruption
                /\ wk[r].idx < Len(wk[r].files) /\ wk'[r].pc # "loop") =>
                /\ wk'[r].pc = "done" /\ wk'[r]._is_canceled
                /\ wk'[r].written = wk[r].written
                /\ wk'[r].idx = wk[r].idx
                /\ outFiles' = outFiles
                /\ sigq' = Append(sigq, finished_processing(r, wk'[r]))]_vars
  /\ [](\A r \in Runs :
          (wk[r].pc = "done" /\ wk[r]._is_canceled) =>
             /\ wk[r].idx < Len(wk[r].files)
             /\ Completed(r) = wk[r].idx
             /\ wk[r].emitted[Len(wk[r].emitted)] =
                  [sig |-> "finished_processing", run |-> r, canceled |-> TRUE,
                   success |-> wk[r].success_count, errors |-> wk[r].error_count,
                   error_list |-> wk[r].errors])

\* a run of two files was cancelled after it had saved the first
C2_Witness ==
  \E r \in Runs :
     /\ wk[r].pc = "done" /\ wk[r]._is_canceled
     /\ Len(wk[r].files) = 2 /\ wk[r].success_count = 1 /\ wk[r].idx = 1

\* run r was started and its completion signal has not been handled yet
Pending(r) ==
  \/ Running(r)
  \/ \E i \in DOMAIN sigq : sigq[i].sig = "finished_processing" /\ sigq[i].run = r

\* the step in which _on_worker_finished handles a completion signal
HandlesFinished ==
  /\ sigq # <<>> /\ Head(sigq).sig = "finished_processing"
  /\ sigq' = Tail(sigq)

\* C3: each run leaves Running once, with one completion signal emitted after
\* all its progress and log signals, and once that signal is handled every
\* progress dialog is closed, the worker reference is cleared and no run is
\* Running: the engine is Idle.
C3_IdleAfterFinished ==
  /\ [](\A r \in Runs :
          wk[r].pc \in {"start", "loop", "file", "done"} =>
            /\ Len(SelectSig(wk[r].emitted, "finished_processing")) =
                 (IF wk[r].pc = "done" THEN 1 ELSE 0)
            /\ wk[r].pc = "done" => wk[r].emitted[Len(wk[r].emitted)].sig = "finished_processing")
  /\ [][HandlesFinished =>
          /\ \A r \in Runs : ~dlg'[r].visible
          /\ win'._worker_thread = 0
          /\ \A r \in Runs : ~Running(r)']_vars

\* C4 as stated: the progress update of a file is emitted after that file, so
\* a run has never emitted more updates than it has completed files
C4_ProgressAfterFile ==
  \A r \in Runs : Live(r) => Len(ProgressOf(r)) <= Completed(r)

\* C4: the worker emits one progress update per file it processes, at the
\* start of that file's loop iteration, before the file is opened: the
\* updates carry the 0-based indices 0, 1, 2, ... in file order with the
\* file's name, one more than the completed files while a file is in
\* progress, and a run that has processed k files has emitted exactly k.
C4_ProgressBeforeFile ==
  \A r \in Runs :
     Live(r) =>
       /\ Len(ProgressOf(r)) = Completed(r) + (IF wk[r].pc = "file" THEN 1 ELSE 0)
       /\ Completed(r) = wk[r].idx
       /\ \A i \in DOMAIN ProgressOf(r) :
             /\ ProgressOf(r)[i].idx = i - 1
             /\ ProgressOf(r)[i].msg = <<"Processing: ", basename(wk[r].files[i])>>

\* a run has emitted the update of its second file and not completed it yet
C4_Witness ==
  \E r \in Runs :
     wk[r].pc = "file" /\ Len(ProgressOf(r)) = 2 /\ Completed(r) = 1

\* C5: at most one run is started and not yet handled as finished
C5_OneWorker == Cardinality({ r \in Runs : Pending(r) }) <= 1
\* the config run r was handed for page i of a file, as it stood at the start
GivenResolve(r, f, file, i) ==
  _get_config(load_page(file, i + 1), wk[r].given[f].configs, wk[r].given[f].default)

\* C6: the config maps and defaults a run works with are copies taken before
\* it started: whatever the window has done to its own text, timestamp and
\* stamp configs since, a run that is still going resolves, for every page
\* of every file it may still process, the config it was handed at the start.
C6_DeepCopiedConfigs ==
  \A r \in Runs :
     Running(r) =>
       \A f \in Features :
          /\ WorkerConfigs(r, f) = wk[r].given[f].configs
          /\ wk[r].settings[f].default = wk[r].given[f].default
          /\ \A k \in (wk[r].idx + 1)..Len(wk[r].files) :
                \A i \in 0..(page_count(wk[r].files[k]) - 1) :
                   WorkerResolve(r, f, wk[r].files[k], i) = GivenResolve(r, f, wk[r].files[k], i)

\* the window's configs were edited while a run still had a file to process
C6_Witness ==
  \E r \in Runs :
     /\ Running(r) /\ wk[r].idx < Len(wk[r].files)
     /\ user.edits > 0
     /\ \E f \in Features :
           \/ win.configs_by_size[f] # wk[r].given[f].configs
           \/ win.default_config[f] # wk[r].given[f].default

\* C7: no run reads or writes the font cache of the window's PDFOperations
\* instance (instance 0); the fonts it caches go to an instance of its own.
C7_OwnCaches ==
  \A r \in Runs : Live(r) => wk[r].used_ops \subseteq {r}

\* C8: a started run reads and writes no object the window's thread uses:
\* neither the window's substitution engine nor its PDFOperations instance.
C8_NoSharedState ==
  \A r \in Runs : Live(r) => wk[r].touched = {}

\* C9: a run overwrites a file that existed when it was started only if the
\* path was listed in the overwrite warning the user accepted for that run.
C9_OverwriteWarned ==
  \A r \in Runs : Live(r) => wk[r].overwritten \subseteq wk[r].warned
\* C10: for the same page geometry, config map and default, the preview and
\* the worker resolve the same config: the map's entry under one and the
\* same paper key, or the default in both when the map has none for the page.
C10_SameResolution ==
  (rq.preview # <<>> /\ rq.batch # <<>>) =>
     /\ rq.preview = rq.batch
     /\ \/ \E k \in DOMAIN rq.target_map : rq.batch[1] = rq.target_map[k]
        \/ rq.batch[1] = rq.default

\* both resolved a rotated A4 page to the map's landscape entry
C10_Witness ==
  /\ rq.preview # <<>> /\ rq.batch # <<>>
  /\ rq.page = [w |-> 595, h |-> 842, rot |-> 90]
  /\ <<"A4", "landscape">> \in DOMAIN rq.target_map
  /\ rq.batch[1] = rq.target_map[<<"A4", "landscape">>]

\* C11: for every selection mode, custom-range string, page count and
\* 0-based index of a page of the document, the preview's decision whether
\* the feature applies to the page equals the worker's decision.
C11_SameSelection ==
  (rq.preview # <<>> /\ rq.batch # <<>>) => rq.preview = rq.batch

\* both decided on page 2 of 3 for the custom string "3-1", and selected it
C11_Witness ==
  /\ rq.preview = <<TRUE>> /\ rq.batch = <<TRUE>>
  /\ rq.cfg = [page_selection |-> "custom", custom_pages |-> <<"3", "-", "1">>]
  /\ rq.idx = 1 /\ rq.total = 3

\* the place of a feature in the order text, timestamp, stamp
Rank(f) == CASE f = "text" -> 1 [] f = "timestamp" -> 2 [] f = "stamp" -> 3 [] f = "save" -> 4

\* C12: the operations on a file come page by page and, on each page, in
\* the order text, timestamp, stamp; each uses the config resolved from its
\* own feature's map; the save comes once, after every page has had every
\* enabled feature that selects it; the preview draws in the same order.
C12_FixedOrder ==
  rq.stage = "order" =>
    /\ \A a, b \in DOMAIN rq.ops :
         a < b => \/ rq.ops[a].i < rq.ops[b].i
                  \/ rq.ops[a].i = rq.ops[b].i /\ Rank(rq.ops[a].f) < Rank(rq.ops[b].f)
    /\ \A a \in DOMAIN rq.ops : rq.ops[a].cfg.entry = <<rq.ops[a].f>>
    /\ \A a \in DOMAIN rq.ops :
         rq.ops[a].f = "save" =>
           /\ a = Len(rq.ops)
           /\ rq.who = "batch"
           /\ \A f \in Features, i \in 0..(rq.total - 1) :
                (/\ f \in rq.enabled
                 /\ f = "stamp" => "stamp" \in rq.has
                 /\ rq.modes[f] = "last" => i = rq.total - 1)
                  <=> \E b \in 1..(a - 1) : rq.ops[b].f = f /\ rq.ops[b].i = i

\* a two-page file saved after text and timestamp on both pages and the
\* stamp on the last
C12_Witness ==
  /\ rq.stage = "order" /\ rq.who = "batch" /\ rq.total = 2
  /\ Len(rq.ops) = 6
  /\ [k \in 1..6 |-> <<rq.ops[k].f, rq.ops[k].i>>] =
       << <<"text", 0>>, <<"timestamp", 0>>, <<"text", 1>>, <<"timestamp", 1>>,
          <<"stamp", 1>>, <<"save", 2>> >>

\* the preview drew text, timestamp and stamp, in that order, on one page
C12_PreviewWitness ==
  /\ rq.stage = "order" /\ rq.who = "preview"
  /\ Len(rq.ops) = 3
  /\ [k \in 1..3 |-> rq.ops[k].f] = <<"text", "timestamp", "stamp">>

\* the opacity to two decimals, in hundredths: the nearest hundredth
Hundredths(opacity) == CHOOSE h \in 0..100 : 10 * h - 5 < opacity /\ opacity < 10 * h + 5

\* C13: over the get_bytes calls of a batch, the image processor is invoked
\* at most once for each opacity rounded to two decimals, and only by the
\* first request for it; every later request for the same rounded opacity
\* invokes nothing and returns the bytes the first request stored.
C13_OncePerOpacity ==
  rq.stage = "stamp" =>
    \A a, b \in DOMAIN rq.log :
      (a < b /\ Hundredths(rq.log[a].opacity) = Hundredths(rq.log[b].opacity)) =>
         /\ ~rq.log[b].invoked
         /\ rq.log[b].bytes = rq.log[a].bytes

\* three pages asked for 0.501, 0.504 and 0.501 again: one invocation, and
\* all three got the bytes made for 0.501
C13_Witness ==
  /\ rq.stage = "stamp" /\ Len(rq.log) = 3
  /\ [k \in 1..3 |-> rq.log[k].opacity] = <<501, 504, 501>>
  /\ [k \in 1..3 |-> rq.log[k].invoked] = <<TRUE, FALSE, FALSE>>
  /\ \A k \in 1..3 : rq.log[k].bytes = <<"PNG", 501>>

\* C14: an error while the stamp image is decoded or processed does not
\* reach page processing: get_bytes returns empty bytes for it, and an
\* insertion of empty bytes returns (0, 0) and draws nothing on the page.
C14_StampFailureContained ==
  rq.stage = "stamp" =>
    /\ ~rq.raised
    /\ \A k \in DOMAIN rq.log :
         /\ (rq.log[k].invoked /\ rq.log[k].outcome # "ok") => rq.log[k].bytes = <<>>
         /\ rq.log[k].bytes = <<>> => (rq.log[k].ret = <<0, 0>> /\ ~rq.log[k].drew)

\* the image failed to decode for the first page, which got nothing drawn;
\* the batch went on and the next page was stamped at another opacity
C14_Witness ==
  /\ rq.stage = "stamp" /\ Len(rq.log) = 2
  /\ rq.log[1].invoked /\ rq.log[1].outcome = "decode_error"
  /\ rq.log[1].bytes = <<>> /\ rq.log[1].ret = <<0, 0>> /\ ~rq.log[1].drew
  /\ rq.log[2].drew /\ rq.log[2].ret = <<142, 142>>

\* C15: for every page geometry and config map the worker's resolution
\* returns a config: the map's entry under the classifier's key or, when the
\* classifier returns None, under ("Unknown", portrait exactly when the
\* rotation-corrected height is at least the width), and the default when
\* the map has no entry under that key.
C15_ResolutionTotal ==
  (rq.stage = "asked" /\ rq.batch # <<>>) =>
    LET turned == rq.page.rot \in {90, 270}
        cw == IF turned THEN rq.page.h ELSE rq.page.w
        ch == IF turned THEN rq.page.w ELSE rq.page.h
        found == detect_paper_key(cw, ch, DIMENSION_TOLERANCE)
        key == IF found = None
               THEN (IF ch >= cw THEN <<"Unknown", "portrait">>
                                 ELSE <<"Unknown", "landscape">>)
               ELSE found
    IN rq.batch[1] = IF key \in DOMAIN rq.target_map
                     THEN rq.target_map[key] ELSE rq.default

\* a square page no paper matches resolved to the map's entry for
\* ("Unknown", "portrait")
C15_Witness ==
  /\ rq.stage = "asked" /\ rq.batch # <<>>
  /\ rq.page.w = 300 /\ rq.page.h = 300
  /\ <<"Unknown", "portrait">> \in DOMAIN rq.target_map
  /\ rq.batch[1] = rq.target_map[<<"Unknown", "portrait">>]

\* a page no paper matches resolved to the default, the map having no entry
C15_DefaultWitness ==
  /\ rq.stage = "asked" /\ rq.batch # <<>>
  /\ rq.page = [w |-> 842, h |-> 300, rot |-> 0]
  /\ rq.target_map = [k \in {} |-> Tagged(k)]
  /\ rq.batch[1] = rq.default

\* C16: for every entry of the catalog of papers (the "Unknown" sentinel is
\* no paper) with reference size (w, h), classifying (w, h) and (w+9, h)
\* gives the entry's key and classifying (w+11, h) gives None; a key is
\* returned only for a size within less than 10 points of its reference
\* size in both width and height.
C16_ToleranceClassification ==
  (rq.stage = "classify" /\ rq.result # <<>> /\ rq.tol = 10) =>
    LET e == PAPER_DEFINITIONS[rq.entry]
    IN /\ (e[1] # "Unknown" /\ rq.dw \in {0, 9} /\ rq.dh = 0) => rq.result[1] = <<e[1], e[2]>>
       /\ (e[1] # "Unknown" /\ rq.dw = 11 /\ rq.dh = 0) => rq.result[1] = <<>>
       /\ rq.result[1] # <<>> =>
            \E j \in DOMAIN PAPER_DEFINITIONS :
               /\ rq.result[1] = <<PAPER_DEFINITIONS[j][1], PAPER_DEFINITIONS[j][2]>>
               /\ AskedW - PAPER_DEFINITIONS[j][3] \in -9..9
               /\ AskedH - PAPER_DEFINITIONS[j][4] \in -9..9

\* US Letter landscape widened by 9 points is still US Letter landscape
C16_Witness ==
  /\ rq.stage = "classify" /\ rq.tol = 10
  /\ PAPER_DEFINITIONS[rq.entry] = <<"US Letter", "landscape", 792, 612>>
  /\ rq.dw = 9 /\ rq.dh = 0
  /\ rq.result = << <<"US Letter", "landscape">> >>

\* A3 portrait widened by 11 points is no paper
C16_NoneWitness ==
  /\ rq.stage = "classify" /\ rq.tol = 10
  /\ PAPER_DEFINITIONS[rq.entry] = <<"A3", "portrait", 842, 1191>>
  /\ rq.dw = 11 /\ rq.dh = 0
  /\ rq.result = << <<>> >>

\* C17: whatever the width, height and tolerance, the classifier returns no
\* key of the "Unknown" family; a caller's key is of that family only when
\* the classifier returned None for the size.
C17_UnknownOnlyFallback ==
  rq.stage = "classify" =>
    /\ rq.result # <<>> => (rq.result[1] = <<>> \/ rq.result[1][1] # "Unknown")
    /\ (rq.key # <<>> /\ rq.key[1][1] = "Unknown") =>
          detect_paper_key(AskedW, AskedH, DIMENSION_TOLERANCE) = <<>>

\* a size 11 points off the "Unknown" portrait entry got None from the
\* classifier and an "Unknown" key from the caller
C17_Witness ==
  /\ rq.stage = "classify" /\ rq.tol = 10
  /\ PAPER_DEFINITIONS[rq.entry] = <<"Unknown", "portrait", 595, 842>>
  /\ rq.dw = 11 /\ rq.dh = 11
  /\ rq.result = << <<>> >>
  /\ rq.key = << <<"Unknown", "portrait">> >>

\* the reference size of the "Unknown" portrait entry was classified as A4
\* portrait
C17_ReferenceWitness ==
  /\ rq.stage = "classify" /\ rq.tol = 10
  /\ PAPER_DEFINITIONS[rq.entry] = <<"Unknown", "portrait", 595, 842>>
  /\ rq.dw = 0 /\ rq.dh = 0
  /\ rq.result = << <<"A4", "portrait">> >>

\* C18: the worker's decision for the page at a 0-based index of a document
\* is true at every index for mode all, only at index 0 for first, only at
\* the last index for last, at the odd 1-based page numbers for odd, at the
\* even ones for even, membership of the page number in the parsed page set
\* for custom, and false everywhere for a mode string that is none of these.
C18_SelectionModes ==
  (rq.stage = "select" /\ rq.batch # <<>> /\ "page_selection" \in DOMAIN rq.cfg) =>
    LET mode == rq.cfg.page_selection
        number == rq.idx + 1
    IN rq.batch[1] =
         CASE mode = "all" -> TRUE
           [] mode = "first" -> rq.idx = 0
           [] mode = "last" -> rq.idx = rq.total - 1
           [] mode = "odd" -> number \in {1, 3, 5, 7}
           [] mode = "even" -> number \in {2, 4, 6, 8}
           [] mode = "custom" -> number \in parse_custom_pages(rq.cfg.custom_pages, rq.total)
           [] OTHER -> FALSE

\* the mode "ALL" is none of the six: the first page was not selected
C18_Witness ==
  /\ rq.stage = "select" /\ rq.batch = <<FALSE>>
  /\ "page_selection" \in DOMAIN rq.cfg
  /\ rq.cfg.page_selection = "ALL"
  /\ rq.idx = 0

\* mode odd selected the third page of three
C18_OddWitness ==
  /\ rq.stage = "select" /\ rq.batch = <<TRUE>>
  /\ "page_selection" \in DOMAIN rq.cfg
  /\ rq.cfg.page_selection = "odd"
  /\ rq.idx = 2 /\ rq.total = 3

\* a token of the custom string lists page p: it is the integer p, or a-b
\* (a the text before its first "-", b the text after, both integers) with
\* p between the smaller and the larger of the two
Listed(token, p) ==
  LET u == Strip(token)
      hy == { i \in DOMAIN u : u[i] = "-" }
  IN IF hy = {} THEN IsIntLit(u) /\ IntOf(u) = p
     ELSE LET i == CHOOSE x \in hy : \A y \in hy : x <= y
              a == SubSeq(u, 1, i - 1)
              b == SubSeq(u, i + 1, Len(u))
          IN /\ IsIntLit(a) /\ IsIntLit(b)
             /\ \/ IntOf(a) <= p /\ p <= IntOf(b)
                \/ IntOf(b) <= p /\ p <= IntOf(a)

\* C19: the parsed set of a custom page string holds exactly the page numbers
\* of [1, total] that some comma-separated token lists, a range listing the
\* same pages in either direction; a token that is neither an integer nor a
\* range of integers adds nothing and stops nothing, and a string with no
\* token that parses, the empty string among them, gives the empty set.
C19_ParsedPages ==
  (rq.stage = "select" /\ rq.parsed # <<>>) =>
    LET str == rq.cfg.custom_pages
        tokens == SplitOn(str, ",")
    IN /\ rq.parsed[1] \subseteq 1..rq.total
       /\ \A p \in 1..rq.total :
            p \in rq.parsed[1] <=> \E k \in DOMAIN tokens : Listed(tokens[k], p)
       /\ (\A i \in DOMAIN str : str[i] \notin Digits) => rq.parsed[1] = {}

\* "3-1" for a document of two pages gives pages 1 and 2
C19_Witness ==
  /\ rq.stage = "select" /\ rq.total = 2
  /\ rq.cfg = [page_selection |-> "custom", custom_pages |-> <<"3", "-", "1">>]
  /\ rq.parsed = << {1, 2} >>

\* "x,3,": the tokens "x" and "" are skipped and page 3 is kept
C19_SkipWitness ==
  /\ rq.stage = "select" /\ rq.total = 3
  /\ rq.cfg = [page_selection |-> "custom", custom_pages |-> <<"x", ",", "3", ",">>]
  /\ rq.parsed = << {3} >>

C20_CentreWitness ==
  /\ rq.stage = "anchor"
  /\ "position" \in DOMAIN rq.cfg /\ rq.cfg.position = <<"C","e","n","t","e","r">>
  /\ rq.page = <<595, 842>> /\ rq.block = <<0, 0>>
  /\ rq.at = <<127 * 595, 127 * 842>>

\* the position of the config contains none of "Top", "Bottom", "Left", "Right"
NoKeyword(pos) ==
  \A kw \in { <<"T","o","p">>, <<"B","o","t","t","o","m">>,
              <<"L","e","f","t">>, <<"R","i","g","h","t">> } : ~IsSubstring(kw, pos)

\* the anchor centres the block on both axes
Centred ==
  /\ 2 * rq.at[1] = 254 * (rq.page[1] - rq.block[1])
  /\ 2 * rq.at[2] = 254 * (rq.page[2] - rq.block[2])

\* C21 as stated: for every position value of a config that contains none of
\* the four keywords, the anchor is the centre on both axes.
C21_NoKeywordCentres ==
  (/\ rq.stage = "anchor" /\ rq.at # <<>>
   /\ "position" \in DOMAIN rq.cfg /\ NoKeyword(rq.cfg.position)) => Centred

\* C21: for every non-empty position that contains none of the four
\* keywords the anchor is the centre on both axes; an empty position, like a
\* missing one, is read as "Top Left" and gives the two margins.
C21_NamedNoKeywordCentres ==
  (rq.stage = "anchor" /\ rq.at # <<>>) =>
    /\ ("position" \in DOMAIN rq.cfg /\ rq.cfg.position # <<>>
          /\ NoKeyword(rq.cfg.position)) => Centred
    /\ ("position" \notin DOMAIN rq.cfg \/ rq.cfg.position = <<>>) =>
          /\ rq.at[1] = 720 * Get(rq.cfg, "h_margin", 10)
          /\ rq.at[2] = 720 * Get(rq.cfg, "v_margin", 10)

\* "Middle" centres a 100 x 142 block on a 595 x 842 page, whatever the margins
C21_Witness ==
  /\ rq.stage = "anchor"
  /\ "position" \in DOMAIN rq.cfg /\ rq.cfg.position = <<"M","i","d","d","l","e">>
  /\ rq.cfg.h_margin = 25
  /\ rq.page = <<595, 842>> /\ rq.block = <<100, 142>>
  /\ rq.at = <<127 * 495, 127 * 700>>

\* the empty position with margins of 25 mm puts the block at the margins
C21_EmptyWitness ==
  /\ rq.stage = "anchor"
  /\ "position" \in DOMAIN rq.cfg /\ rq.cfg.position = <<>>
  /\ rq.cfg.h_margin = 25 /\ rq.cfg.v_margin = 25
  /\ rq.at = <<18000, 18000>>

\* C22: the processed image is three times as wide and as high as the stamp
\* file exactly when both the file's width and its height are below 1000
\* pixels, and has the file's size otherwise; it is never smaller.
C22_UpscaleWhenBothSmall ==
  (rq.stage = "scale" /\ rq.out # <<>>) =>
    LET small == rq.img.w < 1000 /\ rq.img.h < 1000
        out == rq.out[1]
    IN /\ small => (out.w = 3 * rq.img.w /\ out.h = 3 * rq.img.h)
       /\ ~small => (out.w = rq.img.w /\ out.h = rq.img.h)
       /\ out.w >= rq.img.w /\ out.h >= rq.img.h

\* the processed image is never smaller than the stamp file
C22_NeverReduced ==
  (rq.stage = "scale" /\ rq.out # <<>>) =>
     (rq.out[1].w >= rq.img.w /\ rq.out[1].h >= rq.img.h)

\* position i of s starts a $Identifier token
TokenAt(s, i) == s[i] = "$" /\ i < Len(s) /\ s[i + 1] \in Word

\* the Identifier of the token that starts at i: the name characters up to
\* the first character that is none
KeyAt(s, i) ==
  LET stops == { j \in (i + 1)..(Len(s) + 1) : j = Len(s) + 1 \/ s[j] \notin Word }
  IN SubSeq(s, i + 1, (CHOOSE j \in stops : \A k \in stops : j <= k) - 1)

\* position j of s is part of the Identifier of a token
InKey(s, j) ==
  /\ s[j] \in Word
  /\ \E i \in 1..(j - 1) : s[i] = "$" /\ \A k \in (i + 1)..j : s[k] \in Word

RECURSIVE Concat(_)
Concat(parts) == IF parts = <<>> THEN <<>> ELSE parts[1] \o Concat(Tail(parts))

\* a line with every token replaced by its value, or by nothing when the
\* extracted map has none
Substituted(s, data) ==
  Concat([j \in DOMAIN s |->
            IF TokenAt(s, j)
            THEN (IF KeyAt(s, j) \in DOMAIN data THEN data[KeyAt(s, j)] ELSE <<>>)
            ELSE IF InKey(s, j) THEN <<>> ELSE <<s[j]>>])

\* a line that, trimmed, is exactly $Identifier with Identifier not extracted
PureMissing(line, data) ==
  LET u == Strip(line)
  IN /\ Len(u) >= 2 /\ u[1] = "$" /\ \A k \in 2..Len(u) : u[k] \in Word
     /\ Tail(u) \notin DOMAIN data

\* C23: the result of apply is the template without the lines that, trimmed,
\* are exactly an unresolved $Identifier, and with every $Identifier of the
\* other lines replaced by its extracted value, or by nothing and recorded
\* as missing when it has none; every other line stays, in its place.
C23_TwoPasses ==
  (rq.stage = "apply" /\ rq.out # <<>>) =>
    LET data == extract_values(rq.filename)
        lines == SplitOn(rq.text, "\n")
        stays == { k \in DOMAIN lines : ~PureMissing(lines[k], data) }
        keptl == [n \in 1..Cardinality(stays) |->
                    lines[CHOOSE k \in stays : Cardinality({ m \in stays : m <= k }) = n]]
        outl == SplitOn(rq.out[1].final_text, "\n")
    IN /\ IF stays = {} THEN rq.out[1].final_text = <<>>
          ELSE /\ Len(outl) = Len(keptl)
               /\ \A n \in DOMAIN keptl : outl[n] = Substituted(keptl[n], data)
       /\ \A k \in stays : \A i \in DOMAIN lines[k] :
            (TokenAt(lines[k], i) /\ KeyAt(lines[k], i) \notin DOMAIN data)
               => KeyAt(lines[k], i) \in rq.out[1].missing_keys
       /\ rq.out[1].missing_keys \cap DOMAIN data = {}

\* "$B" on a line of its own is dropped with its line; the line "A" stays
C23_Witness ==
  /\ rq.stage = "apply" /\ rq.filename = "A is 7"
  /\ rq.text = <<"$", "B", "\n", "A">>
  /\ rq.out = << [final_text |-> <<"A">>, missing_keys |-> { <<"B">> }] >>

\* a resolved placeholder is replaced in its line; a "$" that starts no
\* name stays
C23_InlineWitness ==
  /\ rq.stage = "apply" /\ rq.filename = "A is 7"
  /\ rq.text = <<"$", "A", ":", "$">>
  /\ rq.out = << [final_text |-> <<"7", ":", "$">>, missing_keys |-> {}] >>

\* an unresolved placeholder that shares its line with a colon: the line
\* stays, without the placeholder
C23_SharedLineWitness ==
  /\ rq.stage = "apply" /\ rq.filename = "A is 7"
  /\ rq.text = <<":", "$", "B", "\n">>
  /\ rq.out = << [final_text |-> <<":", "\n">>, missing_keys |-> { <<"B">> }] >>


\* a config that holds its own page selection and custom page string
HasSelection(c) == {"page_selection", "custom_pages"} \subseteq DOMAIN c

\* C24 as stated: a Preset's per-paper-size config maps, serialized to the
\* nested structure and deserialized, come back equal to the originals.
C24_RoundTripEqual ==
  (rq.stage = "preset" /\ rq.built # <<>> /\ rq.back # <<>>) =>
    rq.back[1].configs_by_size = rq.built[1].configs_by_size

\* C24, amended: the round trip gives back the same (family, orientation)
\* keys, and under each key the original attributes with their values; a
\* config that holds page_selection and custom_pages comes back equal, one
\* that lacks either comes back with "all" or "" added for it.
C24_RoundTripWithSelection ==
  (rq.stage = "preset" /\ rq.built # <<>> /\ rq.back # <<>>) =>
    LET orig == rq.built[1].configs_by_size
        back == rq.back[1].configs_by_size
    IN /\ DOMAIN back = DOMAIN orig
       /\ \A k \in DOMAIN orig :
            /\ \A a \in DOMAIN orig[k] : a \in DOMAIN back[k] /\ back[k][a] = orig[k][a]
            /\ DOMAIN back[k] = DOMAIN orig[k] \cup {"page_selection", "custom_pages"}
            /\ "page_selection" \notin DOMAIN orig[k] => back[k]["page_selection"] = "all"
            /\ "custom_pages" \notin DOMAIN orig[k] => back[k]["custom_pages"] = ""
            /\ HasSelection(orig[k]) => back[k] = orig[k]
       /\ ((\A k \in DOMAIN orig : HasSelection(orig[k])) => back = orig)

\* three keys in two families, every config complete, back after the round trip
C24_Witness ==
  /\ rq.stage = "preset" /\ rq.built # <<>> /\ rq.back # <<>>
  /\ DOMAIN rq.built[1].configs_by_size = PresetKeys
  /\ \A k \in PresetKeys : HasSelection(rq.built[1].configs_by_size[k])
  /\ rq.back[1].configs_by_size = rq.built[1].configs_by_size

\* a config that holds only a font family comes back with a selection added
C24_AddedWitness ==
  /\ rq.stage = "preset" /\ rq.built # <<>> /\ rq.back # <<>>
  /\ DOMAIN rq.built[1].configs_by_size = { <<"A4", "portrait">> }
  /\ DOMAIN rq.built[1].configs_by_size[<<"A4", "portrait">>] = {"font_family"}
  /\ DOMAIN rq.back[1].configs_by_size[<<"A4", "portrait">>]
       = {"font_family", "page_selection", "custom_pages"}

\* an old document with a flat key: the selection of the feature moves into
\* the config that has none
C24_LegacyWitness ==
  /\ rq.stage = "preset" /\ rq.built = <<>> /\ rq.back # <<>>
  /\ <<"A4", "portrait">> \in DOMAIN rq.back[1].configs_by_size
  /\ rq.back[1].configs_by_size[<<"A4", "portrait">>]["page_selection"] = "first"
  /\ rq.back[1].configs_by_size[<<"A4", "portrait">>]["custom_pages"] = "3"


\* C25: a stored preset changes only by being overwritten as a whole by an
\* update, and the new version keeps the name and the creation time of the
\* one it replaces and gets the time of the update as its modified time; a
\* preset made by Save or Duplicate has a null modified time; a modified
\* time in the store was set by an overwrite, or came with the preset that
\* a rename or an import brought in.
C25_UpdateKeepsCreation ==
  [][rq.stage = "store" =>
       \A p \in DOMAIN rq'.files :
         /\ (p \in DOMAIN rq.files /\ rq'.files[p] # rq.files[p]) =>
              /\ rq'.last.op = "update"
              /\ rq'.files[p].name = rq.files[p].name
              /\ rq'.files[p].created = rq.files[p].created
              /\ rq'.files[p].modified = <<rq.now>>
         /\ (p \notin DOMAIN rq.files /\ rq'.last.op \in {"save", "duplicate"}) =>
              /\ rq'.files[p].created = rq.now
              /\ rq'.files[p].modified = <<>>
         /\ (p \notin DOMAIN rq.files /\ rq'.last.op = "rename") =>
              LET old == rq.files[get_preset_path(rq'.last.source)]
              IN /\ rq'.files[p].created = old.created
                 /\ rq'.files[p].modified = old.modified
         /\ (p \notin DOMAIN rq.files /\ rq'.files[p].modified # <<>>) =>
              rq'.last.op \in {"rename", "import"}]_vars

\* a preset saved at time 1 and updated at time 2
C25_Witness ==
  /\ rq.stage = "store" /\ rq.last.op = "update" /\ rq.last.ok
  /\ rq.files[get_preset_path(rq.last.name)].created = 1
  /\ rq.files[get_preset_path(rq.last.name)].modified = <<2>>
  /\ rq.files[get_preset_path(rq.last.name)].settings = "s1"

\* a preset just saved: no modified time
C25_NewWitness ==
  /\ rq.stage = "store" /\ rq.last.op = "save" /\ rq.last.ok
  /\ rq.files[get_preset_path(rq.last.name)].created = 2
  /\ rq.files[get_preset_path(rq.last.name)].modified = <<>>

\* C30 as stated: a save without the overwrite flag, an import or a rename
\* whose target name is taken fails and leaves every stored file as it was.
C30_TakenNameFails ==
  [][(/\ rq.stage = "store"
      /\ rq'.last.op \in {"save", "import", "rename"}
      /\ get_preset_path(rq'.last.name) \in DOMAIN rq.files)
       => (~rq'.last.ok /\ rq'.files = rq.files)]_vars

\* C30, amended: the same for every such call but the rename of a preset to
\* its own name, which reports success and writes nothing; and no failed
\* call changes a stored file.
C30_TakenNameNeverReplaced ==
  [][rq.stage = "store" =>
       /\ (/\ rq'.last.op \in {"save", "import", "rename"}
           /\ get_preset_path(rq'.last.name) \in DOMAIN rq.files)
            => /\ rq'.files = rq.files
               /\ rq'.last.ok = (rq'.last.op = "rename" /\ rq'.last.source = rq'.last.name)
       /\ ~rq'.last.ok => rq'.files = rq.files]_vars

\* a rename onto an existing other preset has failed: both are still stored
C30_Witness ==
  /\ rq.stage = "store" /\ rq.last.op = "rename" /\ ~rq.last.ok
  /\ get_preset_path(rq.last.source) \in DOMAIN rq.files
  /\ get_preset_path(rq.last.name) \in DOMAIN rq.files
  /\ get_preset_path(rq.last.source) # get_preset_path(rq.last.name)

\* a save without the flag onto a taken name has failed
C30_SaveWitness ==
  /\ rq.stage = "store" /\ rq.last.op = "save" /\ ~rq.last.ok
  /\ get_preset_path(rq.last.name) \in DOMAIN rq.files

\* an import onto a taken name has failed
C30_ImportWitness ==
  /\ rq.stage = "store" /\ rq.last.op = "import" /\ ~rq.last.ok
  /\ get_preset_path(rq.last.name) \in DOMAIN rq.files

\* a rename to a different name with the same file name has failed
C30_SamePathWitness ==
  /\ rq.stage = "store" /\ rq.last.op = "rename" /\ ~rq.last.ok
  /\ rq.last.source # rq.last.name /\ Strip(rq.last.name) # <<>>
  /\ get_preset_path(rq.last.source) = get_preset_path(rq.last.name)
  /\ get_preset_path(rq.last.name) \in DOMAIN rq.files

\* a preset renamed to its own name: success, nothing written
C30_SameNameWitness ==
  /\ rq.stage = "store" /\ rq.last.op = "rename" /\ rq.last.ok
  /\ rq.last.source = rq.last.name
  /\ get_preset_path(rq.last.name) \in DOMAIN rq.files


C26_PresetWitness ==
  /\ rq.stage = "opacity"
  /\ "text_opacity" \notin DOMAIN rq.text_cfg
  /\ rq.text_renderer = <<[text_opacity |-> 1000, bg_opacity |-> 0]>>
  /\ "stamp_opacity" \notin DOMAIN rq.stamp_cfg /\ rq.stamp_processor = <<1000>>


\* the completion signal run r has emitted
FinishedOf(r) == SelectSig(wk[r].emitted, "finished_processing")

\* C27: at every file boundary of a run, and in its completion signal,
\* success_count + error_count is the number of files started (one progress
\* signal each, for the files of the list in order, none twice), the error
\* list holds error_count messages, one per file that failed, and the
\* signal of a run that was not cancelled counts the whole list.
C27_CountsMatchFiles ==
  /\ \A r \in Runs :
       wk[r].pc \in {"loop", "done"} =>
         /\ wk[r].success_count + wk[r].error_count = Len(ProgressOf(r))
         /\ wk[r].success_count + wk[r].error_count <= Len(wk[r].files)
         /\ Len(wk[r].errors) = wk[r].error_count
         /\ wk[r].raised \subseteq 0..(Len(ProgressOf(r)) - 1)
         /\ Cardinality(wk[r].raised) = wk[r].error_count
         /\ \A i \in DOMAIN ProgressOf(r) :
              ProgressOf(r)[i].msg = <<"Processing: ", basename(wk[r].files[i])>>
         /\ \A i \in DOMAIN wk[r].errors :
              \E k \in wk[r].raised : wk[r].errors[i] = <<"Failed ", basename(wk[r].files[k + 1])>>
         /\ wk[r].pc = "done" =>
              /\ Len(FinishedOf(r)) = 1
              /\ FinishedOf(r)[1].success + FinishedOf(r)[1].errors = Len(ProgressOf(r))
              /\ FinishedOf(r)[1].error_list = wk[r].errors
              /\ ~FinishedOf(r)[1].canceled =>
                   FinishedOf(r)[1].success + FinishedOf(r)[1].errors = Len(wk[r].files)
  /\ \A i \in DOMAIN sigq :
       sigq[i].sig = "finished_processing" => Len(sigq[i].error_list) = sigq[i].errors

\* between the two files of a run, the first having failed
C27_Witness ==
  \E r \in Runs :
     /\ wk[r].pc = "loop" /\ Len(wk[r].files) = 2 /\ wk[r].idx = 1
     /\ wk[r].error_count = 1 /\ wk[r].success_count = 0 /\ Len(wk[r].errors) = 1

\* a run of two files ended, not cancelled, with one saved and one failed
C27_DoneWitness ==
  \E r \in Runs :
     /\ wk[r].pc = "done" /\ Len(wk[r].files) = 2
     /\ FinishedOf(r) # <<>> /\ ~FinishedOf(r)[1].canceled
     /\ FinishedOf(r)[1].success = 1 /\ FinishedOf(r)[1].errors = 1

\* C28: the completion signal says cancelled exactly when the worker saw
\* the request at the top of the iteration of a file it had not started; a
\* request that arrives while the last file is processed is never seen: the
\* run ends not cancelled with every file counted, and the box shown for a
\* signal is "Cancelled" exactly when the signal says so.
C28_CancelledOnlyIfObserved ==
  /\ [](\A r \in Runs :
          wk[r].pc = "done" =>
            /\ FinishedOf(r)[1].canceled = wk[r]._is_canceled
            /\ wk[r]._is_canceled = (wk[r].interruption /\ wk[r].idx < Len(wk[r].files))
            /\ ~wk[r]._is_canceled =>
                 wk[r].success_count + wk[r].error_count = Len(wk[r].files))
  /\ [][/\ \A r \in Runs :
             /\ (~wk[r]._is_canceled /\ wk'[r]._is_canceled) =>
                  /\ wk[r].pc = "loop" /\ wk[r].interruption
                  /\ wk[r].idx < Len(wk[r].files)
                  /\ wk'[r].idx = wk[r].idx
             /\ (wk[r].pc = "loop" /\ wk[r].idx = Len(wk[r].files) /\ wk'[r].pc = "done") =>
                  /\ ~wk'[r]._is_canceled
                  /\ sigq'[Len(sigq')].sig = "finished_processing"
                  /\ ~sigq'[Len(sigq')].canceled
                  /\ sigq'[Len(sigq')].success + sigq'[Len(sigq')].errors = Len(wk[r].files)
        /\ HandlesFinished =>
             (win'.result_box.title = "Cancelled") = Head(sigq).canceled]_vars

\* cancel was requested during the second and last file: the run ended not
\* cancelled, with both files counted
C28_Witness ==
  \E r \in Runs :
     /\ wk[r].pc = "done" /\ wk[r].interruption /\ ~wk[r]._is_canceled
     /\ Len(wk[r].files) = 2 /\ wk[r].success_count + wk[r].error_count = 2

\* the box of a run that ended not cancelled
C28_BoxWitness ==
  win.result_box.title = "Complete" /\ win.result_box.success = 2

\* C29: within one run no two files of the list have the same output path,
\* so every save goes to a path the run has not written before; and the
\* path the worker saves a file to is the path the overwrite detection
\* looked at for that file.
C29_DistinctOutputPaths ==
  /\ [](\A r \in Runs :
          Live(r) =>
            /\ \A i \in DOMAIN wk[r].files : \A j \in DOMAIN wk[r].files :
                 i # j => worker_save_path(wk[r].files[i], wk[r].input_root)
                            # worker_save_path(wk[r].files[j], wk[r].input_root)
            /\ \A f \in Range(wk[r].files) :
                 worker_save_path(f, wk[r].input_root) = save_path(f, wk[r].input_root)
            /\ Cardinality(wk[r].written) = wk[r].success_count
            /\ wk[r].warned \subseteq { worker_save_path(f, wk[r].input_root) : f \in Range(wk[r].files) })
  /\ [][/\ \A r \in Runs :
             (wk[r].pc = "file" /\ wk'[r].written # wk[r].written) =>
               /\ wk'[r].written \ wk[r].written =
                    { save_path(wk[r].files[wk[r].idx + 1], wk[r].input_root) }
               /\ Cardinality(wk'[r].written) = Cardinality(wk[r].written) + 1
        /\ win.pc = "confirm" =>
             /\ win'.selected_pdf_paths = win.selected_pdf_paths
             /\ win'.input_path_entry = win.input_path_entry
             /\ \A r \in Runs :
                  (wk[r].pc = "none" /\ wk'[r].pc = "start") =>
                    /\ wk'[r].files = win.selected_pdf_paths
                    /\ wk'[r].input_root = win.input_path_entry
                    /\ wk'[r].warned = win.existing_files]_vars

\* a run has saved two files that have the same file name, in two folders
C29_Witness ==
  \E r \in Runs :
     /\ wk[r].pc = "done" /\ Len(wk[r].files) = 2
     /\ basename(wk[r].files[1]) = basename(wk[r].files[2])
     /\ Cardinality(wk[r].written) = 2 /\ wk[r].success_count = 2
====
